---- MODULE Spec2Model ----
(***************************************************************************)
(* Model of the macro recorder (src/unnamed/part_001): the quest-walk and  *)
(* hunt controller threads with their coordination flags, the event log    *)
(* writer and reader, the playback loop and the capture handlers.          *)
(*                                                                         *)
(* Scores and thresholds are percentages (0..100) instead of doubles.      *)
(***************************************************************************)
EXTENDS Integers, Sequences, FiniteSets, TLC

\* ------------------------------------------------------------------------
\* Program constants
\* ------------------------------------------------------------------------
kArrivalMeters == 3
kResumeMeters == 5

\* ------------------------------------------------------------------------
\* Bounds of the model
\* ------------------------------------------------------------------------
\* largest distance the text reader returns in the model
MaxDist == 6
\* number of SHIFT restarts of the hunt that are explored
MaxRestarts == 1

\* distances the text reader can return; -1 is a failed read
DistReadings == {-1, 0, 2} \cup (kArrivalMeters..MaxDist)
\* marker offsets from the screen centre, around the deadzone
DeadzonePx == 40
MarkerDx == {-(DeadzonePx + 1), -DeadzonePx, DeadzonePx + 1}
\* match scores (percent) the matcher returns
Scores == {50, 88, 95}

VARIABLES
    \* shared coordination flags
    gRecording, gPlaying, gBattleStarted, gRunQuestWalk, gAutoHuntRun,
    \* quest-walk thread
    qwPc, ocrOk, arrived, prevDist, qwHeld, qwCmds,
    \* what the current tick of the quest-walk thread has seen, and the
    \* arguments the thread was started with
    qwSeen, qwArgs,
    \* hunt thread and its saved configuration
    huntPc, huntCmds, enemyTh, battleTh, cooldownMs, lastAttack, now,
    \* when the device last received an attack (-1: never)
    attackAt,
    gEnemyTh, gBattleTh, gCooldownMs,
    \* templates the detector holds, scan interval of the thread, overlay record
    detEnemies, detBattle, scanMs, gHuntInfo,
    gEnemyTemplatesPath, gBattleStartPath, gScanMs,
    \* main thread
    mainPc, nRestart, huntMode,
    \* keyboard as the system reports it
    escDown, escMsg, shiftLatch,
    \* event log: clock, stdio buffer of gOut, file on disk, events appended
    qpc, gOut, pending, disk, written, recPc,
    \* play_file
    playPc, events, playIdx, prev_t, sleeps, sleptUs, playOut,
    \* capture: message loop with SinkProc, absolute-mode poller, cursor detector
    capPc, msgq, closePosted, sinkTodo, sinkEv,
    gRunAbsPoll, pollPc, pollLast, pollEv,
    gRunCursorDetect, cdPc, gAbsByAlt, gAbsByCursor,
    \* keyboard and pointer as the user drives them
    altDown, cursorPt, nInputs,
    \* marker detection: find_all_matches and pick_world_marker
    famPc, famSurface, famResult, famHits, famPasses, templCols, templRows, markerTh,
    gQuestLogIgnore, pickOut,
    \* TemplateDetector::findEnemy: the enemy templates on a frame, and its result
    enemies_, enemyTh_, findOut

ctlVars == <<gRecording, gPlaying, gBattleStarted, gRunQuestWalk, gAutoHuntRun,
             qwPc, ocrOk, arrived, prevDist, qwHeld, qwCmds, qwSeen, qwArgs,
             huntPc, huntCmds, enemyTh, battleTh, cooldownMs, lastAttack, now, attackAt,
             gEnemyTh, gBattleTh, gCooldownMs,
             detEnemies, detBattle, scanMs, gHuntInfo,
             gEnemyTemplatesPath, gBattleStartPath, gScanMs, mainPc, nRestart, huntMode,
             escDown, escMsg, shiftLatch>>

\* the variables each thread leaves alone
flagVars == <<gRecording, gPlaying, gBattleStarted, gRunQuestWalk, gAutoHuntRun>>
qwVars == <<qwPc, ocrOk, arrived, prevDist, qwHeld, qwCmds, qwSeen, qwArgs>>
\* what start_auto_hunt hands to the detector and to the thread it starts
huntCfg == <<enemyTh, battleTh, cooldownMs, scanMs, detEnemies, detBattle>>
huntVars == <<huntPc, huntCmds, huntCfg, lastAttack, attackAt, gHuntInfo>>
cfgVars == <<gEnemyTh, gBattleTh, gCooldownMs, gEnemyTemplatesPath, gBattleStartPath, gScanMs>>
mainVars == <<mainPc, nRestart, huntMode>>
keyVars == <<escDown, escMsg, shiftLatch>>

logVars == <<qpc, gOut, pending, disk, written, recPc>>
playVars == <<playPc, events, playIdx, prev_t, sleeps, sleptUs, playOut>>
\* capture state other than gAbsByAlt
capNoAlt == <<capPc, msgq, closePosted, sinkTodo, sinkEv,
              gRunAbsPoll, pollPc, pollLast, pollEv,
              gRunCursorDetect, cdPc, gAbsByCursor,
              altDown, cursorPt, nInputs>>
capVars == <<capPc, msgq, closePosted, sinkTodo, sinkEv,
             gRunAbsPoll, pollPc, pollLast, pollEv,
             gRunCursorDetect, cdPc, gAbsByAlt, gAbsByCursor,
             altDown, cursorPt, nInputs>>
visVars == <<famPc, famSurface, famResult, famHits, famPasses, templCols, templRows, markerTh,
             gQuestLogIgnore, pickOut, enemies_, enemyTh_, findOut>>
findVars == <<enemies_, enemyTh_, findOut>>
nonCtlVars == <<logVars, playVars, capVars, visVars>>

vars == <<ctlVars, logVars, playVars, capVars, visVars>>

\* ------------------------------------------------------------------------
\* Device commands (send_key)
\* ------------------------------------------------------------------------
MoveKeys == {"W", "A", "S", "D", "SHIFT"}

send_key(down, vk) == [down |-> down, vk |-> vk]

release_move_keys ==
    << send_key(FALSE, "W"), send_key(FALSE, "A"), send_key(FALSE, "S"),
       send_key(FALSE, "D"), send_key(FALSE, "SHIFT") >>

\* the keys held after a sequence of key commands
RECURSIVE ApplyKeys(_, _)
ApplyKeys(held, cmds) ==
    IF cmds = <<>> THEN held
    ELSE LET c == Head(cmds)
         IN ApplyKeys(IF c.down THEN held \cup {c.vk} ELSE held \ {c.vk}, Tail(cmds))

HasKeyDown(cmds, vk) == \E i \in 1..Len(cmds) : cmds[i].down /\ cmds[i].vk = vk
AnyKeyDown(cmds) == \E i \in 1..Len(cmds) : cmds[i].down

\* ------------------------------------------------------------------------
\* Quest-walk thread (start_quest_walk)
\* ------------------------------------------------------------------------

\* start_quest_walk as run_full_integrated calls it: gMarkerTh, gQuestTickMs
\* and a marker template of 3 by 3
FullQuestArgs == [markerTh |-> 85, tickMs |-> 50, templCols |-> 3, templRows |-> 3]

\* the "questwalk" command line: the defaults, a threshold of 0, a tick of
\* -1, a template one pixel wide
QuestArgs ==
    { FullQuestArgs,
      [FullQuestArgs EXCEPT !.markerTh = 0],
      [FullQuestArgs EXCEPT !.tickMs = -1],
      [FullQuestArgs EXCEPT !.templCols = 1] }

\* find_all_matches returns on a frame with a location at or above th: each
\* hit must remove itself from the locations left to select
MatchEnds(th, cols, rows) == th > 0 /\ cols \div 2 > 0 /\ rows \div 2 > 0

\* Sleep(DWORD): the int -1 is INFINITE
SleepReturns(ms) == ms # -1

\* the locals of a tick before the capture: no marker, no reading
NoSeen == [markerFound |-> FALSE, read |-> -1, dx |-> 0]

\* a walker that takes a failed read for "distance unknown"
DistUnknownOnMiss(read, pd) == read

\* the distance a tick acts on: its reading, or the last valid one
DistInEffect(read, pd) == IF read >= 0 THEN read ELSE pd

\* a steering that counts the edge of the deadzone as outside
SteerInclusive(dx, deadzonePx) ==
    IF dx <= -deadzonePx
      THEN << send_key(TRUE, "A"), send_key(FALSE, "D"), send_key(FALSE, "S") >>
    ELSE IF dx >= deadzonePx
      THEN << send_key(TRUE, "D"), send_key(FALSE, "A"), send_key(FALSE, "S") >>
    ELSE << send_key(FALSE, "A"), send_key(FALSE, "D"), send_key(FALSE, "S") >>

\* steering by the marker's horizontal offset dx from the screen centre
Steer(dx, deadzonePx) ==
    IF dx < -deadzonePx
      THEN << send_key(TRUE, "A"), send_key(FALSE, "D"), send_key(FALSE, "S") >>
    ELSE IF dx > deadzonePx
      THEN << send_key(TRUE, "D"), send_key(FALSE, "A"), send_key(FALSE, "S") >>
    ELSE << send_key(FALSE, "A"), send_key(FALSE, "D"), send_key(FALSE, "S") >>

\* a walker that sprints at every distance
WalkSpeedAlwaysFast(distM) == << send_key(TRUE, "W"), send_key(TRUE, "SHIFT") >>

\* speed while not arrived: fast beyond 5 m or without a reading, slow otherwise
WalkSpeed(distM) ==
    IF distM < 0 \/ distM > 5
      THEN << send_key(TRUE, "W"), send_key(TRUE, "SHIFT") >>
      ELSE << send_key(TRUE, "W"), send_key(FALSE, "SHIFT") >>

\* a stopped walker that resumes as soon as it is beyond the arrival distance
ResumesBeyondArrival(distM) == distM > kArrivalMeters

\* the resume test of a stopped walker
Resumes(distM) == distM >= 0 /\ distM >= kResumeMeters

\* The body of one tick after the battle check: marker search, distance read,
\* movement and steering.  rd is what readDistance returns (-1: failure).
QuestTick(arr, pd, markerFound, ocr, rd, dx, deadzonePx) ==
    IF ~markerFound
      THEN [arrived |-> arr, prevDist |-> pd,
            cmds |-> IF ~arr
                       THEN << send_key(FALSE, "A"), send_key(FALSE, "D"), send_key(FALSE, "S") >>
                       ELSE << >>]
    ELSE
      LET read  == IF ocr THEN rd ELSE -1
          npd   == IF read >= 0 THEN read ELSE pd
          distM == DistInEffect(read, pd)
      IN
      IF ~arr
        THEN IF distM >= 0 /\ distM <= kArrivalMeters
               THEN [arrived |-> TRUE, prevDist |-> npd, cmds |-> release_move_keys]
               ELSE [arrived |-> FALSE, prevDist |-> npd,
                     cmds |-> WalkSpeed(distM)
                              \o << send_key(FALSE, "S") >>
                              \o Steer(dx, deadzonePx)]
      ELSE IF Resumes(distM)
        THEN [arrived |-> FALSE, prevDist |-> npd,
              cmds |-> << send_key(TRUE, "W"), send_key(TRUE, "SHIFT"), send_key(FALSE, "S") >>
                       \o Steer(dx, deadzonePx)]
      ELSE IF distM > kArrivalMeters /\ distM < kResumeMeters
        THEN [arrived |-> TRUE, prevDist |-> npd,
              cmds |-> << send_key(TRUE, "W"), send_key(FALSE, "SHIFT"), send_key(FALSE, "S") >>
                       \o Steer(dx, deadzonePx)]
      ELSE IF npd >= 0 /\ distM >= 0 /\ distM > npd + 2
        THEN [arrived |-> TRUE, prevDist |-> npd,
              cmds |-> << send_key(FALSE, "W"), send_key(FALSE, "SHIFT"),
                          send_key(TRUE, "S"), send_key(FALSE, "S") >>]
      ELSE [arrived |-> TRUE, prevDist |-> npd,
            cmds |-> << send_key(FALSE, "W"), send_key(FALSE, "S"), send_key(FALSE, "SHIFT") >>]

\* the quest-walk thread issues cmds: the keys it holds, and the system's
\* "pressed since the last query" bit of SHIFT
QwSend(cmds) ==
    /\ qwCmds' = cmds
    /\ qwHeld' = ApplyKeys(qwHeld, cmds)
    /\ shiftLatch' = (shiftLatch \/ HasKeyDown(cmds, "SHIFT"))

\* a thread that forgets the sprint key when it leaves its loop
QwLeaveNoShift ==
    << send_key(FALSE, "W"), send_key(FALSE, "A"), send_key(FALSE, "S"), send_key(FALSE, "D") >>

\* what the thread does when it leaves its loop
QwLeave == release_move_keys

\* thread entry: OCR init, "Begin walking"
QwBegin ==
    /\ qwPc = "begin"
    /\ \E ok \in BOOLEAN : ocrOk' = ok
    /\ arrived' = FALSE
    /\ prevDist' = -1
    /\ QwSend(<< send_key(TRUE, "W"), send_key(TRUE, "SHIFT") >>)
    /\ qwPc' = "loop"
    /\ UNCHANGED <<nonCtlVars, flagVars, qwSeen, qwArgs, huntVars, cfgVars, mainVars, now, escDown, escMsg>>

\* top of a tick: loop condition, ESC check, battle check
QwLoop ==
    /\ qwPc = "loop"
    /\ qwSeen' = NoSeen
    /\ UNCHANGED qwArgs
    /\ IF ~gRunQuestWalk
         THEN /\ qwPc' = "exit"
              /\ QwSend(<< >>)
              /\ UNCHANGED gRunQuestWalk
       ELSE IF escDown
         THEN /\ gRunQuestWalk' = FALSE
              /\ qwPc' = "exit"
              /\ QwSend(<< >>)
       ELSE IF gBattleStarted
         THEN /\ QwSend(release_move_keys)
              /\ qwPc' = "pause"
              /\ UNCHANGED gRunQuestWalk
       ELSE /\ qwPc' = "tick"
            /\ QwSend(<< >>)
            /\ UNCHANGED gRunQuestWalk
    /\ UNCHANGED <<nonCtlVars, gRecording, gPlaying, gBattleStarted, gAutoHuntRun, ocrOk, arrived, prevDist,
                   huntVars, cfgVars, mainVars, now, escDown, escMsg>>

\* a resume that keeps the state from before the pause and walks slowly
QwResumeKeepsState == [arrived |-> arrived, cmds |-> << send_key(TRUE, "W") >>]

\* the resume after a battle pause
QwResume == [arrived |-> FALSE,
             cmds |-> << send_key(TRUE, "W"), send_key(TRUE, "SHIFT") >>]

\* one poll of the battle-pause loop, and the resume after it
QwPause ==
    /\ qwPc = "pause"
    /\ IF gRunQuestWalk /\ gBattleStarted
         THEN IF escDown
                THEN /\ gRunQuestWalk' = FALSE
                     /\ qwPc' = "exit"
                     /\ QwSend(<< >>)
                     /\ UNCHANGED arrived
                ELSE /\ QwSend(<< >>)
                     /\ UNCHANGED <<gRunQuestWalk, qwPc, arrived>>
       ELSE IF ~gRunQuestWalk
         THEN /\ qwPc' = "exit"
              /\ QwSend(<< >>)
              /\ UNCHANGED <<gRunQuestWalk, arrived>>
       ELSE /\ arrived' = QwResume.arrived
            /\ QwSend(QwResume.cmds)
            /\ qwPc' = "loop"
            /\ UNCHANGED gRunQuestWalk
    /\ UNCHANGED <<nonCtlVars, gRecording, gPlaying, gBattleStarted, gAutoHuntRun, ocrOk, prevDist,
                   qwSeen, qwArgs, huntVars, cfgVars, mainVars, now, escDown, escMsg>>

\* a frame with a location at or above the threshold on which the search
\* of find_all_matches never ends: the thread stays in pick_world_marker
QwMatch ==
    /\ qwPc = "tick"
    /\ ~MatchEnds(qwArgs.markerTh, qwArgs.templCols, qwArgs.templRows)
    /\ qwPc' = "matching"
    /\ QwSend(<< >>)
    /\ UNCHANGED <<nonCtlVars, flagVars, ocrOk, arrived, prevDist, qwSeen, qwArgs,
                   huntVars, cfgVars, mainVars, now, escDown, escMsg>>

\* the rest of the tick: capture, marker, distance, movement, steering, sleep
QwTick ==
    /\ qwPc = "tick"
    /\ \E markerFound \in BOOLEAN, rd \in DistReadings, dx \in MarkerDx :
         LET r == QuestTick(arrived, prevDist, markerFound, ocrOk, rd, dx, DeadzonePx)
         IN /\ markerFound => MatchEnds(qwArgs.markerTh, qwArgs.templCols, qwArgs.templRows)
            /\ arrived' = r.arrived
            /\ prevDist' = r.prevDist
            /\ QwSend(r.cmds)
            /\ qwSeen' = IF markerFound
                           THEN [markerFound |-> TRUE,
                                 read |-> IF ocrOk THEN rd ELSE -1, dx |-> dx]
                           ELSE NoSeen
    /\ qwPc' = IF SleepReturns(qwArgs.tickMs) THEN "loop" ELSE "asleep"
    /\ UNCHANGED <<nonCtlVars, flagVars, ocrOk, qwArgs, huntVars, cfgVars, mainVars, now, escDown, escMsg>>

\* after the loop: release_move_keys, thread ends
QwExit ==
    /\ qwPc = "exit"
    /\ QwSend(QwLeave)
    /\ qwPc' = "done"
    /\ UNCHANGED <<nonCtlVars, flagVars, ocrOk, arrived, prevDist, qwSeen, qwArgs,
                   huntVars, cfgVars, mainVars, now, escDown, escMsg>>

\* ------------------------------------------------------------------------
\* Hunt thread (start_auto_hunt) and its restart
\* ------------------------------------------------------------------------

kDefaultEnemyPath == "templates\\Enemies"
kDefaultBattlePath == "templates\\BattleStart.png"

\* TemplateDetector::isBattleStart
isBattleStart(score, th) == score >= th

\* TemplateDetector::findEnemy, reduced to whether a target is returned
enemyFound(score, th) == score >= th

\* an attack that leaves the button down
HuntAttackNoRelease == << "move", "buttonDown" >>

\* the attack: smooth pointer move, left button press and release
HuntAttack == << "move", "buttonDown", "buttonUp" >>

\* gHuntInfo as start_auto_hunt resets it
NoHuntInfo == [lastWasBattle |-> FALSE, lastConf |-> 0, lastName |-> "(none)"]

\* a thread that never idles
HuntNeverIdle == FALSE

\* the idle test at the top of the loop
HuntIdle == ~gRecording /\ ~gPlaying /\ ~gRunQuestWalk

\* loop condition and the idle test
HuntLoop ==
    /\ huntPc = "loop"
    /\ IF ~gAutoHuntRun THEN huntPc' = "done"
       ELSE IF HuntIdle THEN huntPc' = "loop"
       ELSE huntPc' = "tick"
    /\ huntCmds' = << >>
    /\ UNCHANGED <<nonCtlVars, flagVars, qwVars, huntCfg, lastAttack, attackAt, gHuntInfo,
                   cfgVars, mainVars, now, keyVars>>

\* what the hunt thread does on a battle detection
HuntOnBattle == [battleStarted |-> TRUE, pc |-> "battle"]

\* a thread that attacks without looking at the time of its last attack
HuntReactNoCooldown(found, active, sinceLast, cooldown) ==
    IF ~found THEN "none"
    ELSE IF active THEN "attack"
    ELSE "scan"

\* what the thread does with the result of findEnemy: nothing without a
\* target; with one, an attack in an active mode once the cooldown has
\* elapsed, and a "[SCAN]" line in the passive mode
HuntReact(found, active, sinceLast, cooldown) ==
    IF ~found THEN "none"
    ELSE IF active THEN (IF sinceLast >= cooldown THEN "attack" ELSE "wait")
    ELSE "scan"

\* one scan: battle template first, then the enemy templates and the attack
HuntTick ==
    /\ huntPc = "tick"
    /\ \E battleScore \in Scores, enemyScore \in Scores :
         IF isBattleStart(battleScore, battleTh)
           THEN /\ gBattleStarted' = HuntOnBattle.battleStarted
                /\ gHuntInfo' = [lastWasBattle |-> TRUE, lastConf |-> battleScore,
                                 lastName |-> "BattleStart"]
                /\ huntPc' = HuntOnBattle.pc
                /\ huntCmds' = << >>
                /\ UNCHANGED <<lastAttack, attackAt>>
           ELSE LET found == enemyFound(enemyScore, enemyTh)
                    react == HuntReact(found, gPlaying \/ gRunQuestWalk,
                                       now - lastAttack, cooldownMs)
                IN /\ huntPc' = "loop"
                   /\ UNCHANGED gBattleStarted
                   /\ gHuntInfo' = IF found
                                     THEN [lastWasBattle |-> FALSE, lastConf |-> enemyScore,
                                           lastName |-> "enemy"]
                                     ELSE gHuntInfo
                   /\ IF react = "attack"
                        THEN /\ huntCmds' = HuntAttack
                             /\ lastAttack' = now
                             /\ attackAt' = now
                        ELSE /\ huntCmds' = << >>
                             /\ UNCHANGED <<lastAttack, attackAt>>
    /\ UNCHANGED <<nonCtlVars, gRecording, gPlaying, gRunQuestWalk, gAutoHuntRun, qwVars,
                   huntCfg, cfgVars, mainVars, now, keyVars>>

\* "Hunt OFF": the thread clears its run flag and breaks out of its loop
HuntBattleStop ==
    /\ huntPc = "battle"
    /\ gAutoHuntRun' = FALSE
    /\ huntPc' = "ending"
    /\ huntCmds' = << >>
    /\ UNCHANGED <<nonCtlVars, gRecording, gPlaying, gBattleStarted, gRunQuestWalk, qwVars,
                   huntCfg, lastAttack, attackAt, gHuntInfo, cfgVars, mainVars, now, keyVars>>

\* the thread function returns after the break
HuntEnd ==
    /\ huntPc = "ending"
    /\ huntPc' = "done"
    /\ huntCmds' = << >>
    /\ UNCHANGED <<nonCtlVars, flagVars, qwVars,
                   huntCfg, lastAttack, attackAt, gHuntInfo, cfgVars, mainVars, now, keyVars>>

ClampCooldown(ms) == IF ms < 100 THEN 100 ELSE ms

\* a start that does not wait for the previous thread
HuntNeverJoined == TRUE

\* stop_auto_hunt has returned from its join: there is no thread, or the
\* thread has ended
HuntJoined == huntPc \in {"none", "done"}

ClampScan(ms) == IF ms < 20 THEN 20 ELSE ms

\* start_auto_hunt: the previous thread is joined, the flag and the overlay
\* record cleared, the templates loaded and a new thread started; a failed
\* load has either cleared the enemy templates or emptied the battle template
start_auto_hunt(ep, bp, et, bt, sm, cm, loadOk) ==
    /\ HuntJoined
    /\ gBattleStarted' = FALSE
    /\ gHuntInfo' = NoHuntInfo
    /\ huntCmds' = << >>
    /\ UNCHANGED attackAt
    /\ IF loadOk
         THEN /\ detEnemies' = ep
              /\ detBattle' = bp
              /\ enemyTh' = et
              /\ battleTh' = bt
              /\ scanMs' = ClampScan(sm)
              /\ cooldownMs' = ClampCooldown(cm)
              /\ lastAttack' = now - ClampCooldown(cm)
              /\ gAutoHuntRun' = TRUE
              /\ huntPc' = "loop"
         ELSE /\ gAutoHuntRun' = FALSE
              /\ \E enemiesLoaded \in BOOLEAN :
                   IF enemiesLoaded
                     THEN detEnemies' = ep /\ detBattle' = ""
                     ELSE detEnemies' = "" /\ UNCHANGED detBattle
              /\ UNCHANGED <<huntPc, enemyTh, battleTh, cooldownMs, scanMs, lastAttack>>

\* a relaunch with the built-in thresholds and timing instead of the saved ones
start_auto_hunt_with_defaults(loadOk) ==
    IF gEnemyTemplatesPath = "" \/ gBattleStartPath = ""
      THEN UNCHANGED <<gBattleStarted, gAutoHuntRun, huntVars>>
      ELSE start_auto_hunt(gEnemyTemplatesPath, gBattleStartPath, 75, 88, 200, 900, loadOk)

\* start_auto_hunt_with_saved_config: nothing without both paths
start_auto_hunt_with_saved_config(loadOk) ==
    IF gEnemyTemplatesPath = "" \/ gBattleStartPath = ""
      THEN UNCHANGED <<gBattleStarted, gAutoHuntRun, huntVars>>
      ELSE start_auto_hunt(gEnemyTemplatesPath, gBattleStartPath,
                           gEnemyTh, gBattleTh, gScanMs, gCooldownMs, loadOk)

\* a restart that does not look at the SHIFT key
RestartCondNoShift == ~gAutoHuntRun /\ gBattleStarted

\* the condition under which maybe_restart_hunt_on_shift relaunches the hunt
RestartCond == shiftLatch /\ ~gAutoHuntRun /\ gBattleStarted

\* maybe_restart_hunt_on_shift: GetAsyncKeyState(VK_SHIFT) & 1 reads and
\* clears the "pressed since the last query" bit
maybe_restart_hunt_on_shift ==
    /\ shiftLatch' = FALSE
    /\ IF RestartCond
         THEN /\ nRestart < MaxRestarts
              /\ nRestart' = nRestart + 1
              /\ \E loadOk \in BOOLEAN : start_auto_hunt_with_saved_config(loadOk)
         ELSE UNCHANGED <<nRestart, gBattleStarted, gAutoHuntRun, huntVars>>

\* ------------------------------------------------------------------------
\* Main thread (run_full_integrated) and the keyboard
\* ------------------------------------------------------------------------

MainStartHunt ==
    /\ mainPc = "startHunt"
    /\ \E loadOk \in BOOLEAN :
         start_auto_hunt(kDefaultEnemyPath, kDefaultBattlePath,
                         gEnemyTh, gBattleTh, gScanMs, gCooldownMs, loadOk)
    /\ mainPc' = "startQuest"
    /\ UNCHANGED <<nonCtlVars, gRecording, gPlaying, gRunQuestWalk, qwVars, cfgVars,
                   nRestart, huntMode, now, keyVars>>

MainStartQuest ==
    /\ mainPc = "startQuest"
    /\ qwPc = "none"
    /\ gRunQuestWalk' = TRUE
    /\ qwPc' = "begin"
    /\ mainPc' = "countdown"
    /\ UNCHANGED <<nonCtlVars, gRecording, gPlaying, gBattleStarted, gAutoHuntRun,
                   ocrOk, arrived, prevDist, qwHeld, qwCmds, qwSeen, qwArgs,
                   huntVars, cfgVars, nRestart, huntMode, now, keyVars>>

MainCountdown ==
    /\ mainPc = "countdown"
    /\ gRecording' = TRUE
    /\ mainPc' = "loop"
    /\ UNCHANGED <<nonCtlVars, gPlaying, gBattleStarted, gRunQuestWalk, gAutoHuntRun,
                   qwVars, huntVars, cfgVars, nRestart, huntMode, now, keyVars>>

\* one turn of the message loop: the restart check, then the dispatch of a
\* message (the ESC notification posts the close request; the close request
\* ends the loop)
MainMsg ==
    /\ mainPc \in {"loop", "closing"}
    /\ maybe_restart_hunt_on_shift
    /\ \/ /\ mainPc = "loop"
          /\ escMsg
          /\ escMsg' = FALSE
          /\ mainPc' = "closing"
          /\ UNCHANGED gRecording
       \/ /\ mainPc = "loop"
          /\ UNCHANGED <<escMsg, mainPc, gRecording>>
       \/ /\ mainPc = "closing"
          /\ gRecording' = FALSE
          /\ mainPc' = "stopQuest"
          /\ UNCHANGED escMsg
    /\ UNCHANGED <<nonCtlVars, gPlaying, gRunQuestWalk, qwVars, cfgVars, huntMode, now, escDown>>

\* stop_all_threads
MainStopQuest ==
    /\ mainPc = "stopQuest"
    /\ gRunQuestWalk' = FALSE
    /\ mainPc' = "joinQuest"
    /\ UNCHANGED <<nonCtlVars, gRecording, gPlaying, gBattleStarted, gAutoHuntRun,
                   qwVars, huntVars, cfgVars, nRestart, huntMode, now, keyVars>>

MainStopHunt ==
    /\ mainPc = "joinQuest"
    /\ qwPc \in {"none", "done"}
    /\ gAutoHuntRun' = FALSE
    /\ mainPc' = "joinHunt"
    /\ UNCHANGED <<nonCtlVars, gRecording, gPlaying, gBattleStarted, gRunQuestWalk,
                   qwVars, huntVars, cfgVars, nRestart, huntMode, now, keyVars>>

MainJoinHunt ==
    /\ mainPc = "joinHunt"
    /\ huntPc \in {"none", "done"}
    /\ mainPc' = "end"
    /\ UNCHANGED <<nonCtlVars, flagVars, qwVars, huntVars, cfgVars, nRestart, huntMode, now, keyVars>>

PressEsc ==
    /\ ~escDown
    /\ escDown' = TRUE
    /\ escMsg' = TRUE
    /\ UNCHANGED <<nonCtlVars, flagVars, qwVars, huntVars, cfgVars, mainVars, now, shiftLatch>>

ReleaseEsc ==
    /\ escDown
    /\ escDown' = FALSE
    /\ UNCHANGED <<nonCtlVars, flagVars, qwVars, huntVars, cfgVars, mainVars, now, escMsg, shiftLatch>>

PressShift ==
    /\ ~shiftLatch
    /\ shiftLatch' = TRUE
    /\ UNCHANGED <<nonCtlVars, flagVars, qwVars, huntVars, cfgVars, mainVars, now, escDown, escMsg>>

\* ------------------------------------------------------------------------
\* The controllers: record + hunt + quest-walk ("full")
\* ------------------------------------------------------------------------
\* the controllers before main starts them
IdleCtl ==
    /\ gRecording = FALSE /\ gPlaying = FALSE /\ gBattleStarted = FALSE
    /\ gRunQuestWalk = FALSE /\ gAutoHuntRun = FALSE
    /\ qwPc = "none" /\ ocrOk = FALSE /\ arrived = FALSE /\ prevDist = -1
    /\ qwHeld = {} /\ qwCmds = << >> /\ qwSeen = NoSeen /\ qwArgs = FullQuestArgs
    /\ huntPc = "none" /\ huntCmds = << >>
    /\ gEnemyTemplatesPath = kDefaultEnemyPath /\ gBattleStartPath = kDefaultBattlePath
    /\ gEnemyTh = 75 /\ gBattleTh = 88 /\ gScanMs = 200 /\ gCooldownMs = 900
    /\ detEnemies = "" /\ detBattle = "" /\ gHuntInfo = NoHuntInfo
    /\ enemyTh = 75 /\ battleTh = 88 /\ scanMs = 200 /\ cooldownMs = 900
    /\ lastAttack = 0 /\ now = 0 /\ attackAt = -1
    /\ nRestart = 0 /\ huntMode = "none"
    /\ escDown = FALSE /\ escMsg = FALSE /\ shiftLatch = FALSE

\* no log is open and nothing is played
IdleLog ==
    /\ qpc = 0 /\ gOut = FALSE /\ pending = << >> /\ disk = << >>
    /\ written = << >> /\ recPc = "none"
    /\ playPc = "none" /\ events = << >> /\ playIdx = 0 /\ prev_t = 0
    /\ sleeps = << >> /\ sleptUs = 0 /\ playOut = << >>
    /\ capPc = "none" /\ msgq = << >> /\ closePosted = FALSE
    /\ sinkTodo = << >> /\ sinkEv = << >>
    /\ gRunAbsPoll = FALSE /\ pollPc = "none" /\ pollLast = -1 /\ pollEv = << >>
    /\ gRunCursorDetect = FALSE /\ cdPc = "none"
    /\ gAbsByAlt = FALSE /\ gAbsByCursor = FALSE
    /\ altDown = FALSE /\ cursorPt = 0 /\ nInputs = 0

\* no frame is being searched
IdleVision ==
    /\ famPc = "none" /\ famSurface = << >> /\ famResult = << >> /\ famHits = << >>
    /\ famPasses = 0 /\ templCols = 0 /\ templRows = 0 /\ markerTh = 0
    /\ gQuestLogIgnore = [left |-> 0, top |-> 0, right |-> 0, bottom |-> 0]
    /\ pickOut = << >>
    /\ enemies_ = << >> /\ enemyTh_ = 75 /\ findOut = << >>

InitWalk ==
    /\ IdleCtl /\ IdleLog /\ IdleVision /\ mainPc = "startHunt"

NextWalk ==
    \/ QwBegin \/ QwLoop \/ QwPause \/ QwTick \/ QwExit
    \/ HuntLoop \/ HuntTick \/ HuntBattleStop \/ HuntEnd
    \/ MainStartHunt \/ MainStartQuest \/ MainCountdown \/ MainMsg
    \/ MainStopQuest \/ MainStopHunt \/ MainJoinHunt
    \/ PressEsc \/ ReleaseEsc \/ PressShift

SpecWalk == InitWalk /\ [][NextWalk]_vars

\* the same run with a user who never touches SHIFT: every SHIFT key-down
\* the system sees is one the program has injected
NextWalkNoUserShift ==
    \/ QwBegin \/ QwLoop \/ QwPause \/ QwTick \/ QwExit
    \/ HuntLoop \/ HuntTick \/ HuntBattleStop \/ HuntEnd
    \/ MainStartHunt \/ MainStartQuest \/ MainCountdown \/ MainMsg
    \/ MainStopQuest \/ MainStopHunt \/ MainJoinHunt
    \/ PressEsc \/ ReleaseEsc

SpecWalkNoUserShift == InitWalk /\ [][NextWalkNoUserShift]_vars

\* ------------------------------------------------------------------------
\* The hunt with a recording, a playback or on its own ("recordhunt",
\* "playhunt", "hunt"): the main thread reduced to what the hunt thread
\* reads of it, the three mode flags, the saved configuration and the clock
\* ------------------------------------------------------------------------

ClockStepMs == 450
MaxNowMs == 900

HuntModes == {"recordhunt", "playhunt", "hunt"}

\* the command line: the defaults, or templates, thresholds and timing of
\* the user's own (a scan interval and a cooldown below the floors)
HuntConfigs ==
    { [ep |-> kDefaultEnemyPath, bp |-> kDefaultBattlePath,
       et |-> 75, bt |-> 88, sm |-> 200, cm |-> 900],
      [ep |-> "boar.png", bp |-> "fight.png",
       et |-> 90, bt |-> 95, sm |-> 10, cm |-> 50],
      [ep |-> kDefaultEnemyPath, bp |-> kDefaultBattlePath,
       et |-> 150, bt |-> -10, sm |-> 200, cm |-> 900] }

\* main, record_hunt, play_hunt: the configuration is saved and the hunt
\* started; the standalone hunt counts as a playback from the start
HuntModeStart ==
    /\ mainPc = "huntArgs"
    /\ \E mode \in HuntModes, cfg \in HuntConfigs, loadOk \in BOOLEAN :
         /\ huntMode' = mode
         /\ gEnemyTemplatesPath' = cfg.ep
         /\ gBattleStartPath' = cfg.bp
         /\ gEnemyTh' = cfg.et
         /\ gBattleTh' = cfg.bt
         /\ gScanMs' = cfg.sm
         /\ gCooldownMs' = cfg.cm
         /\ gPlaying' = (mode = "hunt")
         /\ start_auto_hunt(cfg.ep, cfg.bp, cfg.et, cfg.bt, cfg.sm, cfg.cm, loadOk)
         /\ mainPc' = IF mode = "hunt" THEN "huntLoop" ELSE "huntOpen"
    /\ UNCHANGED <<nonCtlVars, gRecording, gRunQuestWalk, qwVars, nRestart, now, keyVars>>

\* record_to_file after its countdown, play_file after reading the log
HuntModeOpen ==
    /\ mainPc = "huntOpen"
    /\ gRecording' = (huntMode = "recordhunt")
    /\ gPlaying' = (huntMode = "playhunt")
    /\ mainPc' = "huntLoop"
    /\ UNCHANGED <<nonCtlVars, gBattleStarted, gRunQuestWalk, gAutoHuntRun, qwVars, huntVars,
                   cfgVars, nRestart, huntMode, now, keyVars>>

\* record_to_file or play_file gives up before its loop (the file cannot
\* be opened, the header is not a log's, a window cannot be created) and
\* record_hunt or play_hunt returns its result
HuntModeOpenFails ==
    /\ mainPc = "huntOpen"
    /\ mainPc' = "returned"
    /\ UNCHANGED <<nonCtlVars, flagVars, qwVars, huntVars, cfgVars, nRestart, huntMode,
                   now, keyVars>>

\* one turn of the mode's loop: the restart check
HuntModePoll ==
    /\ mainPc = "huntLoop"
    /\ maybe_restart_hunt_on_shift
    /\ UNCHANGED <<nonCtlVars, gRecording, gPlaying, gRunQuestWalk, qwVars, cfgVars,
                   mainPc, huntMode, now, escDown, escMsg>>

\* the loop ends (ESC, or the end of the log): the mode flag is cleared
\* and stop_all_threads follows
HuntModeStop ==
    /\ mainPc = "huntLoop"
    /\ gRecording' = FALSE
    /\ gPlaying' = FALSE
    /\ mainPc' = "stopQuest"
    /\ UNCHANGED <<nonCtlVars, gBattleStarted, gRunQuestWalk, gAutoHuntRun, qwVars, huntVars,
                   cfgVars, nRestart, huntMode, now, keyVars>>

\* std::chrono::steady_clock
HuntClock ==
    /\ now < MaxNowMs
    /\ now' = now + ClockStepMs
    /\ UNCHANGED <<nonCtlVars, flagVars, qwVars, huntVars, cfgVars, mainVars, keyVars>>

InitHunt ==
    /\ IdleCtl /\ IdleLog /\ IdleVision /\ mainPc = "huntArgs"

NextHunt ==
    \/ HuntModeStart \/ HuntModeOpen \/ HuntModeOpenFails \/ HuntModePoll \/ HuntModeStop
    \/ MainStopQuest \/ MainStopHunt \/ MainJoinHunt
    \/ HuntLoop \/ HuntTick \/ HuntBattleStop \/ HuntEnd
    \/ PressShift \/ HuntClock

SpecHunt == InitHunt /\ [][NextHunt]_vars

\* ------------------------------------------------------------------------
\* The quest-walk on its own ("questwalk"): no hunt thread, no battle
\* ------------------------------------------------------------------------

\* quest_walk_standalone: start_quest_walk
QuestModeStart ==
    /\ mainPc = "questArgs"
    /\ qwPc = "none"
    /\ gRunQuestWalk' = TRUE
    /\ \E a \in QuestArgs : qwArgs' = a
    /\ qwPc' = "begin"
    /\ mainPc' = "questLoop"
    /\ UNCHANGED <<nonCtlVars, gRecording, gPlaying, gBattleStarted, gAutoHuntRun,
                   ocrOk, arrived, prevDist, qwHeld, qwCmds, qwSeen,
                   huntVars, cfgVars, nRestart, huntMode, now, keyVars>>

\* one turn of its loop: the run flag, then the ESC key and stop_quest_walk
QuestModePoll ==
    /\ mainPc = "questLoop"
    /\ IF ~gRunQuestWalk
         THEN mainPc' = "questJoin" /\ UNCHANGED gRunQuestWalk
       ELSE IF escDown
         THEN gRunQuestWalk' = FALSE /\ mainPc' = "questJoin"
       ELSE UNCHANGED <<gRunQuestWalk, mainPc>>
    /\ UNCHANGED <<nonCtlVars, gRecording, gPlaying, gBattleStarted, gAutoHuntRun,
                   qwVars, huntVars, cfgVars, nRestart, huntMode, now, keyVars>>

\* the join of the quest-walk thread
QuestModeJoin ==
    /\ mainPc = "questJoin"
    /\ qwPc = "done"
    /\ mainPc' = "end"
    /\ UNCHANGED <<nonCtlVars, flagVars, qwVars, huntVars, cfgVars, nRestart, huntMode,
                   now, keyVars>>

InitQuest ==
    /\ IdleCtl /\ IdleLog /\ IdleVision /\ mainPc = "questArgs"

NextQuest ==
    \/ QuestModeStart \/ QuestModePoll \/ QuestModeJoin
    \/ QwBegin \/ QwLoop \/ QwMatch \/ QwTick \/ QwExit
    \/ PressEsc \/ ReleaseEsc

SpecQuest == InitQuest /\ [][NextQuest]_vars

\* the same with both threads scheduled: every step of the quest-walk thread
\* and of the main loop that stays possible is eventually taken
SpecQuestFair ==
    /\ SpecQuest
    /\ WF_vars(QwBegin) /\ WF_vars(QwLoop) /\ WF_vars(QwTick) /\ WF_vars(QwExit)
    /\ WF_vars(QuestModePoll) /\ WF_vars(QuestModeJoin)

\* ------------------------------------------------------------------------
\* Claims about the controllers
\* ------------------------------------------------------------------------

\* C1: once the quest-walk thread has left its loop (by ESC at the top of a
\* tick, by ESC during the battle pause, or by its run flag cleared in any
\* state) its last commands are the key-ups of W, A, S, D and SHIFT, and it
\* holds none of these keys.
C1_ExitReleasesKeys ==
    qwPc = "done" => (qwCmds = release_move_keys /\ qwHeld \cap MoveKeys = {})

\* the thread has exited out of the battle pause after it had arrived
C1_Witness == qwPc = "done" /\ arrived /\ gBattleStarted /\ qwHeld = {}

\* C2: with battleStarted true at the top of a tick the quest-walk thread
\* releases every movement key and pauses; while paused with the flag true
\* it sends no key-down; it leaves the pause (other than to exit) only with
\* the flag clear, and then holds exactly W and SHIFT with arrived = false.
C2_BattlePause ==
    /\ [](qwPc = "pause" => qwHeld = {})
    /\ [][ /\ (qwPc = "loop" /\ gRunQuestWalk /\ ~escDown /\ gBattleStarted /\ qwPc' # "loop")
               => (qwPc' = "pause" /\ qwHeld' = {} /\ qwCmds' = release_move_keys)
           /\ (qwPc = "pause" /\ gBattleStarted) => ~AnyKeyDown(qwCmds')
           /\ (qwPc = "pause" /\ qwPc' = "loop")
               => (~gBattleStarted /\ ~arrived' /\ qwHeld' = {"W", "SHIFT"})
         ]_vars

\* the thread has resumed after a pause that began when it had arrived
C2_Witness ==
    /\ qwPc = "loop" /\ ~arrived /\ prevDist \in 0..kArrivalMeters
    /\ qwCmds = << send_key(TRUE, "W"), send_key(TRUE, "SHIFT") >>

\* the hunt thread has ended after a battle detection
HuntBattleStopped == huntPc = "done" /\ gBattleStarted

\* C3: a battle detection sets battleStarted and ends the hunt thread with
\* its run flag false; from then on the hunt stays stopped and battleStarted
\* stays true until maybe_restart_hunt_on_shift sees the SHIFT press.
C3_BattleStopUntilRestart ==
    /\ [](huntPc = "battle" => gBattleStarted)
    /\ [](HuntBattleStopped => ~gAutoHuntRun)
    /\ [][ /\ (huntPc = "tick" /\ huntPc' = "battle") => gBattleStarted'
           /\ (huntPc = "battle" /\ huntPc' # "battle") => (huntPc' = "ending" /\ ~gAutoHuntRun')
           /\ (huntPc = "ending" /\ huntPc' # "ending") => (huntPc' = "done" /\ ~gAutoHuntRun')
           /\ HuntBattleStopped =>
                \/ HuntBattleStopped'
                \/ (shiftLatch /\ ~shiftLatch' /\ nRestart' = nRestart + 1
                    /\ mainPc \in {"loop", "closing"})
         ]_vars

\* the hunt is stopped by a battle for the second time, after one restart
C3_Witness == HuntBattleStopped /\ ~gAutoHuntRun /\ nRestart = 1

\* ------------------------------------------------------------------------
\* Event log format (FileHeader, Event) and its writer
\* ------------------------------------------------------------------------
kMagic == 1380794691
kVersion == 1
\* sizeof(FileHeader), sizeof(Event) under pack(1)
HeaderSize == 16
EventSize == 24

\* width in bits of t_us and of the microsecond count of a sleep in the
\* model (64 in the program)
TUsBits == 20
TUsMod == 2 ^ TUsBits
TUsHalf == 2 ^ (TUsBits - 1)

\* size of the stdio buffer of gOut in the model (1 << 20 in the program;
\* like it, 16 more than a whole number of records)
FileBufSize == 40

\* events a recording can hold at most, and the clock of a recording
MaxEvents == 2
ClockStepUs == 50000
MaxClockUs == 150000

EV_MOUSE_MOVE == 0
EV_MOUSE_WHEEL == 1
EV_KEY_DOWN == 2
EV_KEY_UP == 3
EV_MOUSE_BUTTON == 4
EV_MOUSE_POS == 5

VK_ESCAPE == 27
VK_SHIFT == 16

Event(type, t_us, a, b, c) == [type |-> type, t_us |-> t_us, a |-> a, b |-> b, c |-> c]

\* n as k little-endian bytes (two's complement for a negative n)
RECURSIVE LE(_, _)
LE(n, k) == IF k = 0 THEN << >> ELSE << n % 256 >> \o LE(n \div 256, k - 1)

\* little-endian bytes as an unsigned number
RECURSIVE U(_)
U(bs) == IF bs = << >> THEN 0 ELSE Head(bs) + 256 * U(Tail(bs))

\* four little-endian bytes as an int32_t
S32(bs) == U(SubSeq(bs, 1, 3)) + 16777216 * (IF bs[4] >= 128 THEN bs[4] - 256 ELSE bs[4])

EncodeHeader(magic, version, start_utc) == LE(magic, 4) \o LE(version, 4) \o LE(start_utc, 8)

EncodeEvent(ev) ==
    LE(ev.type, 4) \o LE(ev.t_us, 8) \o LE(ev.a, 4) \o LE(ev.b, 4) \o LE(ev.c, 4)

RECURSIVE EncodeEvents(_)
EncodeEvents(evs) ==
    IF evs = << >> THEN << >> ELSE EncodeEvent(Head(evs)) \o EncodeEvents(Tail(evs))

\* an Event read with the fields a and b exchanged
DecodeEventSwapsAB(bs) ==
    Event(U(SubSeq(bs, 1, 4)), U(SubSeq(bs, 5, 12)),
          S32(SubSeq(bs, 17, 20)), S32(SubSeq(bs, 13, 16)), S32(SubSeq(bs, 21, 24)))

\* the bytes of one record as the Event struct
DecodeEvent(bs) ==
    Event(U(SubSeq(bs, 1, 4)), U(SubSeq(bs, 5, 12)),
          S32(SubSeq(bs, 13, 16)), S32(SubSeq(bs, 17, 20)), S32(SubSeq(bs, 21, 24)))

\* fwrite into the buffered FILE: a full buffer goes to the file
fwrite(pend, dsk, bytes) ==
    LET all == pend \o bytes
    IN IF Len(all) >= FileBufSize
         THEN [pending |-> SubSeq(all, FileBufSize + 1, Len(all)),
               disk |-> dsk \o SubSeq(all, 1, FileBufSize)]
         ELSE [pending |-> all, disk |-> dsk]

\* payloads of the events written in the model
EventInputs ==
    { <<EV_MOUSE_MOVE, 5, -3, 0>>, <<EV_KEY_DOWN, 65, 0, 0>>, <<EV_KEY_UP, 65, 0, 0>>,
      <<EV_MOUSE_BUTTON, 1, 1, 0>>, <<EV_MOUSE_POS, 2147483647, -2147483647 - 1, 0>>,
      <<EV_MOUSE_WHEEL, -120, 0, 0>> }

\* fopen "wb", header, fflush
RecOpen ==
    /\ recPc = "none" /\ playPc = "none"
    /\ \E ok \in BOOLEAN, start_utc \in {0, 77} :
         IF ok THEN /\ gOut' = TRUE
                    /\ disk' = EncodeHeader(kMagic, kVersion, start_utc)
                    /\ recPc' = "recording"
               ELSE /\ recPc' = "failed"
                    /\ UNCHANGED <<gOut, disk>>
    /\ pending' = << >>
    /\ written' = << >>
    /\ qpc' = 0
    /\ UNCHANGED <<visVars, ctlVars, capVars, playVars>>

\* time passes while recording
ClockTick ==
    /\ recPc = "recording"
    /\ qpc + ClockStepUs <= MaxClockUs
    /\ qpc' = qpc + ClockStepUs
    /\ UNCHANGED <<visVars, ctlVars, capVars, playVars, gOut, pending, disk, written, recPc>>

\* write_event from a single thread: stamp with the clock, then fwrite
RecWrite ==
    /\ recPc = "recording"
    /\ gOut
    /\ Len(written) < MaxEvents
    /\ \E p \in EventInputs :
         LET ev == Event(p[1], qpc, p[2], p[3], p[4])
             w == fwrite(pending, disk, EncodeEvent(ev))
         IN /\ pending' = w.pending
            /\ disk' = w.disk
            /\ written' = Append(written, ev)
    /\ UNCHANGED <<visVars, ctlVars, capVars, playVars, qpc, gOut, recPc>>

\* flush_events, fclose
RecClose ==
    /\ recPc = "recording"
    /\ disk' = disk \o pending
    /\ pending' = << >>
    /\ gOut' = FALSE
    /\ recPc' = "closed"
    /\ UNCHANGED <<visVars, ctlVars, capVars, playVars, qpc, written>>

\* the process dies while recording: what is still buffered is lost
RecCrash ==
    /\ recPc = "recording"
    /\ pending' = << >>
    /\ gOut' = FALSE
    /\ recPc' = "crashed"
    /\ UNCHANGED <<visVars, ctlVars, capVars, playVars, qpc, disk, written>>

\* timestamps, header fields and tail lengths of files that come from elsewhere
ForeignTimes == {0, 100000, 150000, TUsHalf, TUsMod - 1}
ForeignMagics == {kMagic, kMagic + 1, 0}
ForeignVersions == {kVersion, kVersion + 1}
ForeignTails == {0, 5, EventSize - 1}

\* a file not made by this run: any header, events and a cut-off last record
ForeignFile ==
    /\ recPc = "none" /\ playPc = "none"
    /\ \E magic \in ForeignMagics, version \in ForeignVersions,
          n \in 0..MaxEvents, tail \in ForeignTails :
         \E ts \in [1..n -> ForeignTimes], ps \in [1..n -> {<<EV_MOUSE_MOVE, 5, -3, 0>>, <<EV_KEY_DOWN, 65, 0, 0>>}] :
           LET evs == [i \in 1..n |-> Event(ps[i][1], ts[i], ps[i][2], ps[i][3], ps[i][4])]
           IN /\ written' = evs
              /\ disk' = EncodeHeader(magic, version, 0) \o EncodeEvents(evs)
                         \o SubSeq(EncodeEvent(Event(EV_KEY_UP, 0, 65, 0, 0)), 1, tail)
    /\ recPc' = "foreign"
    /\ UNCHANGED <<visVars, ctlVars, capVars, playVars, qpc, gOut, pending>>

\* ------------------------------------------------------------------------
\* play_file: reader and playback loop
\* ------------------------------------------------------------------------

\* a reader that also takes a short last record, padded with zeros
RECURSIVE ReadEventsKeepsPartial(_)
ReadEventsKeepsPartial(bytes) ==
    IF Len(bytes) = 0 THEN << >>
    ELSE IF Len(bytes) < EventSize
      THEN << DecodeEvent(bytes \o [i \in 1..(EventSize - Len(bytes)) |-> 0]) >>
    ELSE << DecodeEvent(SubSeq(bytes, 1, EventSize)) >>
         \o ReadEventsKeepsPartial(SubSeq(bytes, EventSize + 1, Len(bytes)))

\* while (read_exact(in, &ev, sizeof(ev)) == sizeof(ev)) events.push_back(ev)
RECURSIVE ReadEvents(_)
ReadEvents(bytes) ==
    IF Len(bytes) < EventSize THEN << >>
    ELSE << DecodeEvent(SubSeq(bytes, 1, EventSize)) >>
         \o ReadEvents(SubSeq(bytes, EventSize + 1, Len(bytes)))

\* the header test of play_file
HeaderOk(bytes) ==
    /\ Len(bytes) >= HeaderSize
    /\ U(SubSeq(bytes, 1, 4)) = kMagic

HeaderMagic(bytes) == U(SubSeq(bytes, 1, 4))
HeaderVersion(bytes) == U(SubSeq(bytes, 5, 8))

\* a uint64_t difference as the signed count of std::chrono::microseconds
ToSigned(u) == IF u >= TUsHalf THEN u - TUsMod ELSE u

\* a sleep that forgets the previous timestamp
SleepArgFromStart(t, prev) == IF t > 0 THEN << ToSigned(t % TUsMod) >> ELSE << >>

\* the argument of sleep_for before an event stamped t, after one stamped
\* prev; no call when t <= prev
SleepArg(t, prev) == IF t > prev THEN << ToSigned((t - prev) % TUsMod) >> ELSE << >>

\* sleep_for returns at once for a count that is not positive
SleepTime(arg) == IF arg = << >> THEN 0 ELSE IF arg[1] > 0 THEN arg[1] ELSE 0

\* the device command of one replayed event
PlayCommand(e) ==
    IF e.type = EV_MOUSE_MOVE THEN << <<"moveRel", e.a, e.b>> >>
    ELSE IF e.type = EV_MOUSE_POS THEN << <<"moveAbs", e.a, e.b>> >>
    ELSE IF e.type = EV_MOUSE_WHEEL THEN << <<"wheel", e.a, 0>> >>
    ELSE IF e.type = EV_MOUSE_BUTTON
      THEN IF e.a >= 1 /\ e.a <= 5
             THEN << <<IF e.b # 0 THEN "buttonDown" ELSE "buttonUp", e.a, 0>> >>
             ELSE << >>
    ELSE IF e.type = EV_KEY_DOWN THEN << <<"keyDown", e.a, 0>> >>
    ELSE IF e.type = EV_KEY_UP THEN << <<"keyUp", e.a, 0>> >>
    ELSE << >>

\* fopen, header test, read loop
PlayOpen ==
    /\ playPc = "none"
    /\ recPc \in {"closed", "crashed", "foreign"}
    /\ IF HeaderOk(disk)
         THEN /\ events' = ReadEvents(SubSeq(disk, HeaderSize + 1, Len(disk)))
              /\ playPc' = "ready"
         ELSE /\ events' = << >>
              /\ playPc' = "invalid"
    /\ UNCHANGED <<visVars, ctlVars, capVars, logVars, playIdx, prev_t, sleeps, sleptUs, playOut>>

\* there is no file to open
PlayOpenFails ==
    /\ playPc = "none"
    /\ recPc = "failed"
    /\ playPc' = "cannotOpen"
    /\ UNCHANGED <<visVars, ctlVars, capVars, logVars, events, playIdx, prev_t, sleeps, sleptUs, playOut>>

\* countdown, the wait for ESC to be up, gPlaying = true
PlayStart ==
    /\ playPc = "ready"
    /\ ~escDown
    /\ gPlaying' = TRUE
    /\ prev_t' = 0
    /\ playIdx' = 0
    /\ playPc' = "loop"
    /\ UNCHANGED <<visVars, gRecording, gBattleStarted, gRunQuestWalk, gAutoHuntRun, qwVars, huntVars,
                   cfgVars, mainVars, now, keyVars,
                   capVars, logVars, events, sleeps, sleptUs, playOut>>

\* a playback that does not look at the stop key
StopKeyIgnored == FALSE

\* GetAsyncKeyState(VK_ESCAPE) & 0x8000 at the top of a turn
StopKeyDown == escDown

\* one turn of the playback loop
PlayStep ==
    /\ playPc = "loop"
    /\ playIdx < Len(events)
    /\ maybe_restart_hunt_on_shift
    /\ gAbsByAlt' = altDown
    /\ IF StopKeyDown
         THEN /\ playPc' = "stopped"
              /\ UNCHANGED <<playIdx, prev_t, sleeps, sleptUs, playOut>>
         ELSE LET e == events[playIdx + 1]
                  arg == SleepArg(e.t_us, prev_t)
              IN /\ sleeps' = Append(sleeps, arg)
                 /\ sleptUs' = sleptUs + SleepTime(arg)
                 /\ prev_t' = e.t_us
                 /\ playOut' = playOut \o PlayCommand(e)
                 /\ playIdx' = playIdx + 1
                 /\ UNCHANGED playPc
    /\ UNCHANGED <<visVars, gRecording, gPlaying, gRunQuestWalk, qwVars, cfgVars, mainPc, huntMode, now,
                   escDown, escMsg, capNoAlt, logVars, events>>

\* after the loop: gPlaying = false, stop_all_threads
PlayFinish ==
    /\ \/ playPc = "loop" /\ playIdx >= Len(events)
       \/ playPc = "stopped"
    /\ gPlaying' = FALSE
    /\ playOut' = playOut \o << <<"keyUp", 87, 0>>, <<"keyUp", 65, 0>>, <<"keyUp", 83, 0>>,
                               <<"keyUp", 68, 0>>, <<"keyUp", VK_SHIFT, 0>> >>
    /\ playPc' = "done"
    /\ UNCHANGED <<visVars, gRecording, gBattleStarted, gRunQuestWalk, gAutoHuntRun, qwVars, huntVars,
                   cfgVars, mainVars, now, keyVars,
                   capVars, logVars, events, playIdx, prev_t, sleeps, sleptUs>>

\* ------------------------------------------------------------------------
\* The event log: record or foreign file, then play
\* ------------------------------------------------------------------------
InitLog == IdleCtl /\ IdleLog /\ IdleVision /\ mainPc = "none"

NextLog ==
    \/ RecOpen \/ ClockTick \/ RecWrite \/ RecClose \/ RecCrash \/ ForeignFile
    \/ PlayOpen \/ PlayOpenFails \/ PlayStart \/ PlayStep \/ PlayFinish
    \/ PressEsc \/ ReleaseEsc \/ PressShift

SpecLog == InitLog /\ [][NextLog]_vars

\* ------------------------------------------------------------------------
\* Claims about the event log and the playback timing
\* ------------------------------------------------------------------------

\* the file has been opened and its header read
PlayHasRead == playPc \notin {"none", "cannotOpen"}

\* C4 as stated: before event N the engine sleeps events[N].t_us -
\* events[N-1].t_us microseconds, and zero microseconds before the first.
C4_SleepIsDeltaZeroFirst ==
    \A n \in 1..Len(sleeps) :
        SleepTime(sleeps[n]) = IF n = 1 THEN 0 ELSE events[n].t_us - events[n - 1].t_us

\* C4 (amended): before event N the engine calls sleep_for with
\* events[N].t_us - p microseconds (as a signed count), where p is
\* events[N-1].t_us, and 0 for the first event, when events[N].t_us > p; it
\* does not sleep otherwise.  Nothing but the t_us values enters.
C4_SleepIsDeltaFromPrev ==
    \A n \in 1..Len(sleeps) :
        LET p == IF n = 1 THEN 0 ELSE events[n - 1].t_us
            t == events[n].t_us
        IN sleeps[n] = IF t > p
                         THEN << IF t - p >= TUsHalf THEN t - p - TUsMod ELSE t - p >>
                         ELSE << >>

\* a played log whose first event is not at time 0 and whose second is later
C4_Witness ==
    /\ playPc = "done" /\ Len(sleeps) >= 2
    /\ events[1].t_us > 0 /\ sleeps[1] = << events[1].t_us >>
    /\ events[2].t_us > events[1].t_us

\* C5: a log with last timestamp T, replayed to its end, takes at least T
\* microseconds of sleep.
C5_TotalSleepAtLeastT ==
    (playPc = "done" /\ Len(events) > 0 /\ playIdx = Len(events))
        => sleptUs >= events[Len(events)].t_us

\* C6: the events appended with write_event to a log that is then flushed
\* and closed are the events the reader returns: same number, order, fields.
C6_RoundTrip ==
    (recPc = "closed" /\ PlayHasRead) => (playPc # "invalid" /\ events = written)

\* a closed recording of two events, one with negative payload, read back
C6_Witness ==
    /\ recPc = "closed" /\ playPc = "ready" /\ Len(events) >= 2
    /\ \E i \in 1..Len(events) : events[i].b < 0

\* C7: a header whose magic or whose version is not the expected one makes
\* play_file fail with no events.
C7_BadHeaderRejected ==
    (PlayHasRead /\ (HeaderMagic(disk) # kMagic \/ HeaderVersion(disk) # kVersion))
        => (playPc = "invalid" /\ events = << >>)

\* C8: the reader returns the complete records of the file, unchanged and in
\* order, nothing for a short last record, and reports no error.
C8_PartialTailIgnored ==
    (PlayHasRead /\ HeaderOk(disk))
        => /\ playPc # "invalid"
           /\ Len(events) = (Len(disk) - HeaderSize) \div EventSize
           /\ Len(events) <= Len(written)
           /\ events = SubSeq(written, 1, Len(events))

\* a recording cut off by a crash in the middle of a record has been read
C8_Witness ==
    /\ recPc = "crashed" /\ playPc = "ready"
    /\ (Len(disk) - HeaderSize) % EventSize # 0
    /\ Len(events) >= 1

\* ------------------------------------------------------------------------
\* Capture (record_to_file): the message loop with SinkProc on the main
\* thread, the absolute-mode poller and the cursor detector
\* ------------------------------------------------------------------------
VK_MENU == 18

\* input notifications the sink window can hold undelivered, and the
\* inputs the user makes in one run
MaxQueue == 1
MaxInputs == 2

\* match scores of the cursor template (percent) and gCursorTh
CursorScores == {-1, 50, 95}
gCursorTh == 88

\* a raw-input notification (WM_INPUT) of the keyboard or of the mouse;
\* btn is the set of usButtonFlags bits
KbdInput(vk, brk) == [dev |-> "kbd", vk |-> vk, brk |-> brk, dx |-> 0, dy |-> 0, btn |-> {}]
MouseInput(dx, dy, btn) == [dev |-> "mouse", vk |-> 0, brk |-> FALSE, dx |-> dx, dy |-> dy, btn |-> btn]

\* what the mouse does in the model: a move, and a move with wheel and left press
MouseInputs == { MouseInput(5, -3, {}), MouseInput(5, -3, {"WHEEL", "LEFT_DOWN"}) }
WheelDelta == -120

\* the button bits in the order SinkProc tests them, with the log_btn arguments
ButtonFlags ==
    << <<"LEFT_DOWN", 1, 1>>, <<"LEFT_UP", 1, 0>>, <<"RIGHT_DOWN", 2, 1>>, <<"RIGHT_UP", 2, 0>>,
       <<"MIDDLE_DOWN", 3, 1>>, <<"MIDDLE_UP", 3, 0>>, <<"BUTTON_4_DOWN", 4, 1>>,
       <<"BUTTON_4_UP", 4, 0>>, <<"BUTTON_5_DOWN", 5, 1>>, <<"BUTTON_5_UP", 5, 0>> >>

RECURSIVE ButtonWrites(_, _)
ButtonWrites(flags, btn) ==
    IF flags = << >> THEN << >>
    ELSE (IF Head(flags)[1] \in btn
            THEN << <<EV_MOUSE_BUTTON, Head(flags)[2], Head(flags)[3], 0>> >> ELSE << >>)
         \o ButtonWrites(Tail(flags), btn)

\* the sink window exists and is registered for raw input
SinkWindowAlive == capPc \in {"countdown", "loop", "stamp", "append"}

\* SinkProc reads the ALT key for this notification
SinkReadsAlt(n) == n.dev = "mouse" \/ n.vk # 255

\* SinkProc posts WM_CLOSE for this notification and logs nothing
SinkPostsClose(n) == n.dev = "kbd" /\ n.vk # 255 /\ ~n.brk /\ n.vk = VK_ESCAPE

\* a handler that logs the relative motion whatever the mode
SinkWritesIgnoresMode(n, absMode) ==
    IF n.dev = "mouse"
      THEN (IF n.dx # 0 \/ n.dy # 0
              THEN << <<EV_MOUSE_MOVE, n.dx, n.dy, 0>> >> ELSE << >>)
           \o (IF "WHEEL" \in n.btn THEN << <<EV_MOUSE_WHEEL, WheelDelta, 0, 0>> >> ELSE << >>)
           \o ButtonWrites(ButtonFlags, n.btn)
    ELSE IF n.vk = 255 \/ SinkPostsClose(n) THEN << >>
    ELSE IF n.brk THEN << <<EV_KEY_UP, n.vk, 0, 0>> >>
    ELSE << <<EV_KEY_DOWN, n.vk, 0, 0>> >>

\* the write_event calls SinkProc makes for one notification, in order
SinkWrites(n, absMode) ==
    IF n.dev = "mouse"
      THEN (IF (n.dx # 0 \/ n.dy # 0) /\ ~absMode
              THEN << <<EV_MOUSE_MOVE, n.dx, n.dy, 0>> >> ELSE << >>)
           \o (IF "WHEEL" \in n.btn THEN << <<EV_MOUSE_WHEEL, WheelDelta, 0, 0>> >> ELSE << >>)
           \o ButtonWrites(ButtonFlags, n.btn)
    ELSE IF n.vk = 255 \/ SinkPostsClose(n) THEN << >>
    ELSE IF n.brk THEN << <<EV_KEY_UP, n.vk, 0, 0>> >>
    ELSE << <<EV_KEY_DOWN, n.vk, 0, 0>> >>

\* GetCursorPos
CursorPos == <<10 * cursorPt, 7>>

\* input the user makes while record_to_file runs; it reaches the sink
\* window as a notification while the window exists
PostInput(n) ==
    /\ recPc = "recording" /\ capPc \notin {"failed", "end"}
    /\ nInputs < MaxInputs
    /\ nInputs' = nInputs + 1
    /\ SinkWindowAlive => Len(msgq) < MaxQueue
    /\ msgq' = IF SinkWindowAlive THEN Append(msgq, n) ELSE msgq

ctlNoKeys == <<flagVars, qwVars, huntVars, cfgVars, mainVars, now, escMsg, shiftLatch>>
capThreads == <<capPc, closePosted, sinkTodo, sinkEv, gRunAbsPoll, pollPc, pollLast, pollEv,
                gRunCursorDetect, cdPc, gAbsByAlt, gAbsByCursor>>

UserEsc ==
    /\ escDown' = ~escDown
    /\ PostInput(KbdInput(VK_ESCAPE, escDown))
    /\ UNCHANGED <<visVars, ctlNoKeys, logVars, playVars, capThreads, altDown, cursorPt>>

UserAlt ==
    /\ altDown' = ~altDown
    /\ PostInput(KbdInput(VK_MENU, altDown))
    /\ UNCHANGED <<visVars, ctlVars, logVars, playVars, capThreads, cursorPt>>

UserMouse ==
    /\ \E n \in MouseInputs :
         /\ PostInput(n)
         /\ cursorPt' = IF n.dx # 0 \/ n.dy # 0 THEN 1 - cursorPt ELSE cursorPt
    /\ UNCHANGED <<visVars, ctlVars, logVars, playVars, capThreads, altDown>>

\* create_sink_window, the clock origin, start_abs_poll_thread,
\* start_cursor_detect_thread (which starts nothing without a template)
CapStart ==
    /\ recPc = "recording" /\ capPc = "none"
    /\ \E windowOk \in BOOLEAN, templOk \in BOOLEAN :
         IF windowOk
           THEN /\ capPc' = "countdown"
                /\ qpc' = 0
                /\ gRunAbsPoll' = TRUE /\ pollPc' = "loop" /\ pollLast' = -1
                /\ gRunCursorDetect' = templOk
                /\ cdPc' = IF templOk THEN "loop" ELSE "none"
           ELSE /\ capPc' = "failed"
                /\ UNCHANGED <<qpc, gRunAbsPoll, pollPc, pollLast, gRunCursorDetect, cdPc>>
    /\ UNCHANGED <<visVars, ctlVars, playVars, gOut, pending, disk, written, recPc,
                   msgq, closePosted, sinkTodo, sinkEv, pollEv, gAbsByAlt, gAbsByCursor,
                   altDown, cursorPt, nInputs>>

\* countdown_3s, gRecording = true
CapCountdown ==
    /\ capPc = "countdown"
    /\ gRecording' = TRUE
    /\ capPc' = "loop"
    /\ UNCHANGED <<visVars, gPlaying, gBattleStarted, gRunQuestWalk, gAutoHuntRun, qwVars, huntVars,
                   cfgVars, mainVars, now, keyVars, logVars, playVars,
                   msgq, closePosted, sinkTodo, sinkEv, gRunAbsPoll, pollPc, pollLast, pollEv,
                   gRunCursorDetect, cdPc, gAbsByAlt, gAbsByCursor, altDown, cursorPt, nInputs>>

\* GetMessage returns a WM_INPUT: maybe_restart_hunt_on_shift, then SinkProc
\* up to its first write_event
CapInput ==
    /\ capPc = "loop"
    /\ msgq # << >>
    /\ maybe_restart_hunt_on_shift
    /\ LET n == Head(msgq)
           alt == IF gRecording /\ SinkReadsAlt(n) THEN altDown ELSE gAbsByAlt
           todo == IF gRecording THEN SinkWrites(n, alt \/ gAbsByCursor) ELSE << >>
       IN /\ msgq' = Tail(msgq)
          /\ gAbsByAlt' = alt
          /\ closePosted' = (closePosted \/ (gRecording /\ SinkPostsClose(n)))
          /\ sinkTodo' = todo
          /\ capPc' = IF todo = << >> THEN "loop" ELSE "stamp"
    /\ UNCHANGED <<visVars, gRecording, gPlaying, gRunQuestWalk, qwVars, cfgVars, mainPc, huntMode, now,
                   escDown, escMsg, logVars, playVars,
                   sinkEv, gRunAbsPoll, pollPc, pollLast, pollEv, gRunCursorDetect, cdPc,
                   gAbsByCursor, altDown, cursorPt, nInputs>>

\* write_event on the message-loop thread, first half: the gOut test and
\* ev.t_us = now_us_since_start()
SinkStamp ==
    /\ capPc = "stamp"
    /\ IF gOut
         THEN /\ Len(written) < MaxEvents
              /\ LET p == Head(sinkTodo)
                 IN sinkEv' = << Event(p[1], qpc, p[2], p[3], p[4]) >>
              /\ capPc' = "append"
              /\ UNCHANGED sinkTodo
         ELSE /\ sinkTodo' = Tail(sinkTodo)
              /\ capPc' = IF Tail(sinkTodo) = << >> THEN "loop" ELSE "stamp"
              /\ UNCHANGED sinkEv
    /\ UNCHANGED <<visVars, ctlVars, logVars, playVars, msgq, closePosted,
                   gRunAbsPoll, pollPc, pollLast, pollEv, gRunCursorDetect, cdPc,
                   gAbsByAlt, gAbsByCursor, altDown, cursorPt, nInputs>>

\* write_event on the message-loop thread, second half: fwrite
SinkAppend ==
    /\ capPc = "append"
    /\ LET w == fwrite(pending, disk, EncodeEvent(sinkEv[1]))
       IN /\ pending' = w.pending
          /\ disk' = w.disk
    /\ written' = Append(written, sinkEv[1])
    /\ sinkEv' = << >>
    /\ sinkTodo' = Tail(sinkTodo)
    /\ capPc' = IF Tail(sinkTodo) = << >> THEN "loop" ELSE "stamp"
    /\ UNCHANGED <<visVars, ctlVars, playVars, qpc, gOut, recPc, msgq, closePosted,
                   gRunAbsPoll, pollPc, pollLast, pollEv, gRunCursorDetect, cdPc,
                   gAbsByAlt, gAbsByCursor, altDown, cursorPt, nInputs>>

\* GetMessage returns the posted WM_CLOSE: DestroyWindow, WM_DESTROY,
\* PostQuitMessage; what the window had not been given is dropped
CapClose ==
    /\ capPc = "loop"
    /\ closePosted
    /\ maybe_restart_hunt_on_shift
    /\ closePosted' = FALSE
    /\ msgq' = << >>
    /\ capPc' = "quit"
    /\ UNCHANGED <<visVars, gRecording, gPlaying, gRunQuestWalk, qwVars, cfgVars, mainPc, huntMode, now,
                   escDown, escMsg, logVars, playVars,
                   sinkTodo, sinkEv, gRunAbsPoll, pollPc, pollLast, pollEv,
                   gRunCursorDetect, cdPc, gAbsByAlt, gAbsByCursor, altDown, cursorPt, nInputs>>

\* after the loop: gRecording = false; stop_all_threads up to the join of
\* the cursor detector
CapStop ==
    /\ capPc = "quit"
    /\ gRecording' = FALSE
    /\ gRunCursorDetect' = FALSE
    /\ capPc' = "joinCursor"
    /\ UNCHANGED <<visVars, gPlaying, gBattleStarted, gRunQuestWalk, gAutoHuntRun, qwVars, huntVars,
                   cfgVars, mainVars, now, keyVars, logVars, playVars,
                   msgq, closePosted, sinkTodo, sinkEv, gRunAbsPoll, pollPc, pollLast, pollEv,
                   cdPc, gAbsByAlt, gAbsByCursor, altDown, cursorPt, nInputs>>

\* stop_cursor_detect_thread after its join, stop_abs_poll_thread up to its join
CapJoinCursor ==
    /\ capPc = "joinCursor"
    /\ cdPc \in {"none", "done"}
    /\ gAbsByCursor' = FALSE
    /\ gRunAbsPoll' = FALSE
    /\ capPc' = "joinPoll"
    /\ UNCHANGED <<visVars, ctlVars, logVars, playVars, msgq, closePosted, sinkTodo, sinkEv,
                   pollPc, pollLast, pollEv, gRunCursorDetect, cdPc, gAbsByAlt,
                   altDown, cursorPt, nInputs>>

\* the poller is joined; flush_events, fclose
CapFinish ==
    /\ capPc = "joinPoll"
    /\ pollPc = "done"
    /\ disk' = disk \o pending
    /\ pending' = << >>
    /\ gOut' = FALSE
    /\ recPc' = "closed"
    /\ capPc' = "end"
    /\ UNCHANGED <<visVars, ctlVars, playVars, qpc, written, msgq, closePosted, sinkTodo, sinkEv,
                   gRunAbsPoll, pollPc, pollLast, pollEv, gRunCursorDetect, cdPc,
                   gAbsByAlt, gAbsByCursor, altDown, cursorPt, nInputs>>

\* one pass of the poller up to the timestamp of its write_event, or a
\* whole pass when it has nothing to write
PollLoop ==
    /\ pollPc = "loop"
    /\ IF ~gRunAbsPoll
         THEN /\ pollPc' = "done"
              /\ UNCHANGED <<pollLast, pollEv, gAbsByAlt>>
         ELSE IF gRecording /\ (gAbsByAlt \/ gAbsByCursor) /\ cursorPt # pollLast
           THEN /\ pollLast' = cursorPt
                /\ IF gOut
                     THEN /\ Len(written) < MaxEvents
                          /\ pollEv' = << Event(EV_MOUSE_POS, qpc, CursorPos[1], CursorPos[2], 0) >>
                          /\ pollPc' = "append"
                          /\ UNCHANGED gAbsByAlt
                     ELSE /\ gAbsByAlt' = altDown
                          /\ UNCHANGED <<pollEv, pollPc>>
           ELSE /\ gAbsByAlt' = altDown
                /\ UNCHANGED <<pollLast, pollEv, pollPc>>
    /\ UNCHANGED <<visVars, ctlVars, logVars, playVars, capPc, msgq, closePosted, sinkTodo, sinkEv,
                   gRunAbsPoll, gRunCursorDetect, cdPc, gAbsByCursor, altDown, cursorPt, nInputs>>

\* the fwrite of the poller's write_event, then the ALT key and the sleep
PollAppend ==
    /\ pollPc = "append"
    /\ LET w == fwrite(pending, disk, EncodeEvent(pollEv[1]))
       IN /\ pending' = w.pending
          /\ disk' = w.disk
    /\ written' = Append(written, pollEv[1])
    /\ pollEv' = << >>
    /\ gAbsByAlt' = altDown
    /\ pollPc' = "loop"
    /\ UNCHANGED <<visVars, ctlVars, playVars, qpc, gOut, recPc, capPc, msgq, closePosted, sinkTodo,
                   sinkEv, gRunAbsPoll, pollLast, gRunCursorDetect, cdPc, gAbsByCursor,
                   altDown, cursorPt, nInputs>>

\* one pass of the cursor detector
CursorDetect ==
    /\ cdPc = "loop"
    /\ IF ~gRunCursorDetect
         THEN /\ gAbsByCursor' = FALSE
              /\ cdPc' = "done"
         ELSE /\ IF ~gRecording /\ ~gPlaying
                   THEN gAbsByCursor' = FALSE
                   ELSE \E score \in CursorScores : gAbsByCursor' = (score >= gCursorTh)
              /\ UNCHANGED cdPc
    /\ UNCHANGED <<visVars, ctlVars, logVars, playVars, capPc, msgq, closePosted, sinkTodo, sinkEv,
                   gRunAbsPoll, pollPc, pollLast, pollEv, gRunCursorDetect, gAbsByAlt,
                   altDown, cursorPt, nInputs>>

InitCapture == IdleCtl /\ IdleLog /\ IdleVision /\ mainPc = "none"

NextCapture ==
    \/ RecOpen \/ ClockTick
    \/ CapStart \/ CapCountdown \/ CapInput \/ SinkStamp \/ SinkAppend
    \/ CapClose \/ CapStop \/ CapJoinCursor \/ CapFinish
    \/ PollLoop \/ PollAppend \/ CursorDetect
    \/ UserEsc \/ UserAlt \/ UserMouse

SpecCapture == InitCapture /\ [][NextCapture]_vars

\* ------------------------------------------------------------------------
\* Claims about the capture
\* ------------------------------------------------------------------------

\* C9: within the log of one recording session t_us is non-decreasing in
\* file order, for every interleaving of SinkProc and the poller.
C9_TimestampsNonDecreasing ==
    \A i \in 1..Len(written), j \in 1..Len(written) :
        i < j => written[i].t_us <= written[j].t_us

\* C10: during capture no event carrying the ESC key code, key-down or
\* key-up, is appended to the log.
C10_EscNeverLogged ==
    \A i \in 1..Len(written) :
        ~(written[i].type \in {EV_KEY_DOWN, EV_KEY_UP} /\ written[i].a = VK_ESCAPE)

\* the absolute-mode flag as a thread reads it
AbsModeFlag == gAbsByAlt \/ gAbsByCursor

HasType(evs, type) == \E i \in 1..Len(evs) : evs[i].type = type
HasPayload(todo, type) == \E i \in 1..Len(todo) : todo[i][1] = type

\* C11: while recording, a relative-motion event is appended only by the
\* notification handler and only after the handler read the absolute-mode
\* flag false; an absolute-position event is appended only by the poller
\* and only after the poller read recording active and the flag true. So a
\* notification handled while the flag reads true logs no relative motion
\* and a poller pass while it reads false logs no position.
C11_MotionByModeAndWriter ==
    [][ /\ (written' # written)
           => /\ Len(written') = Len(written) + 1
              /\ LET e == written'[Len(written')]
                 IN /\ e.type = EV_MOUSE_MOVE => capPc = "append" /\ sinkEv = << e >>
                    /\ e.type = EV_MOUSE_POS => pollPc = "append" /\ pollEv = << e >>
        /\ (sinkEv' # sinkEv /\ sinkEv' # << >>)
           => /\ capPc = "stamp"
              /\ sinkEv'[1].type = Head(sinkTodo)[1]
        /\ (sinkTodo' # sinkTodo /\ HasPayload(sinkTodo', EV_MOUSE_MOVE))
           => \/ /\ sinkTodo = << >> /\ capPc = "loop" /\ gRecording
                 /\ ~AbsModeFlag'
              \/ sinkTodo # << >> /\ sinkTodo' = Tail(sinkTodo)
        /\ ~HasPayload(sinkTodo', EV_MOUSE_POS)
        /\ (pollEv' # pollEv /\ pollEv' # << >>)
           => /\ pollPc = "loop" /\ gRecording /\ AbsModeFlag
              /\ pollEv'[1].type = EV_MOUSE_POS
      ]_vars

\* both kinds of motion are in one log: a relative move written in
\* relative mode, then a position written by the poller in absolute mode
C11_Witness ==
    /\ HasType(written, EV_MOUSE_MOVE)
    /\ HasType(written, EV_MOUSE_POS)

\* ------------------------------------------------------------------------
\* Quest marker detection: find_all_matches and pick_world_marker
\* ------------------------------------------------------------------------
\* size of the score surface (result of matchTemplate), above-zero
\* locations of a surface, and hits a search may collect
RCols == 3
RRows == 2
MaxPeaks == 2
MaxHits == 3

\* template sides: one pixel, an even and an odd number of pixels
TemplSides == {1, 2, 3}

\* scores in percent; the surface is 0 away from its peaks
PeakScores == {70, 90}
Thresholds == {0, 80}

Cells == (0..(RCols - 1)) \X (0..(RRows - 1))

Min2(a, b) == IF a < b THEN a ELSE b
Max2(a, b) == IF a > b THEN a ELSE b

\* rectangles given with the ignore arguments: one away from every centre,
\* one over the left columns, one over every centre
IgnoreRects ==
    { [left |-> 9, top |-> 9, right |-> 9, bottom |-> 9],
      [left |-> 0, top |-> 0, right |-> 2, bottom |-> 2],
      [left |-> 0, top |-> 0, right |-> 9, bottom |-> 9] }

\* a test that leaves the edges of the rectangle out
point_in_rect_open(x, y, r) == x > r.left /\ x < r.right /\ y > r.top /\ y < r.bottom

point_in_rect(x, y, r) == x >= r.left /\ x <= r.right /\ y >= r.top /\ y <= r.bottom

\* minMaxLoc: the largest value of the surface and, scanning row by row,
\* the first place that has it
MaxVal(result) == CHOOSE v \in {result[c] : c \in Cells} : \A c \in Cells : result[c] <= v
MaxLoc(result) ==
    LET maxV == MaxVal(result)
    IN CHOOSE c \in Cells :
         /\ result[c] = maxV
         /\ \A d \in Cells :
               result[d] = maxV => (d[2] > c[2] \/ (d[2] = c[2] /\ d[1] >= c[1]))

\* the rectangle find_all_matches passes to cv::rectangle around maxL
SuppressRect(maxL) ==
    LET x0 == Max2(0, maxL[1] - templCols \div 2)
        y0 == Max2(0, maxL[2] - templRows \div 2)
        x1 == Min2(RCols, maxL[1] + templCols \div 2)
        y1 == Min2(RRows, maxL[2] + templRows \div 2)
    IN [x |-> x0, y |-> y0, width |-> x1 - x0, height |-> y1 - y0]

\* cv::rectangle(result, Rect, 0, FILLED): an empty Rect draws nothing, any
\* other fills x .. x + width - 1, y .. y + height - 1
FillRect(result, rc) ==
    IF rc.width <= 0 \/ rc.height <= 0 THEN result
    ELSE [c \in Cells |->
            IF /\ c[1] >= rc.x /\ c[1] <= rc.x + rc.width - 1
               /\ c[2] >= rc.y /\ c[2] <= rc.y + rc.height - 1
              THEN 0 ELSE result[c]]

MatchHit(topLeft, score) == [topLeft |-> topLeft, score |-> score]

\* the frame searched by pick_world_marker: result = screen - templ + 1
ScreenCols == RCols + templCols - 1
ScreenRows == RRows + templRows - 1

HitCentre(h) == << h.topLeft[1] + templCols \div 2, h.topLeft[2] + templRows \div 2 >>
Cost(ctr) ==
    LET dx == ctr[1] - ScreenCols \div 2
        dy == ctr[2] - ScreenRows \div 2
    IN dx * dx + dy * dy

\* a choice that also takes a hit as far as the best so far
RECURSIVE PickLoopTakesLast(_, _)
PickLoopTakesLast(hits, best) ==
    IF hits = << >> THEN best
    ELSE LET h == Head(hits)
             ctr == HitCentre(h)
         IN IF point_in_rect(ctr[1], ctr[2], gQuestLogIgnore)
              THEN PickLoopTakesLast(Tail(hits), best)
            ELSE IF ~best.found \/ Cost(ctr) <= best.cost
              THEN PickLoopTakesLast(Tail(hits),
                       [found |-> TRUE, cost |-> Cost(ctr), score |-> h.score, centre |-> ctr])
            ELSE PickLoopTakesLast(Tail(hits), best)

\* the loop of pick_world_marker over the hits, in their order
RECURSIVE PickLoop(_, _)
PickLoop(hits, best) ==
    IF hits = << >> THEN best
    ELSE LET h == Head(hits)
             ctr == HitCentre(h)
         IN IF point_in_rect(ctr[1], ctr[2], gQuestLogIgnore)
              THEN PickLoop(Tail(hits), best)
            ELSE IF ~best.found \/ Cost(ctr) < best.cost
              THEN PickLoop(Tail(hits),
                       [found |-> TRUE, cost |-> Cost(ctr), score |-> h.score, centre |-> ctr])
            ELSE PickLoop(Tail(hits), best)

NoMarker == [found |-> FALSE, cost |-> 0, score |-> 0, centre |-> <<-1, -1>>]

\* what pick_world_marker returns for the hits of find_all_matches
pick_world_marker(hits) ==
    IF hits = << >> THEN NoMarker
    ELSE LET best == PickLoop(hits, NoMarker)
         IN IF best.found THEN best ELSE NoMarker

\* pick_world_marker is called on a frame: find_all_matches returns at once
\* when the template does not fit, else runs matchTemplate once
FamStart ==
    /\ famPc = "none" /\ findOut = << >>
    /\ \E tc \in TemplSides, tr \in TemplSides, th \in Thresholds, ig \in IgnoreRects :
         /\ templCols' = tc /\ templRows' = tr /\ markerTh' = th /\ gQuestLogIgnore' = ig
    /\ \E fits \in BOOLEAN :
         IF fits
           THEN \E P \in SUBSET Cells :
                  /\ Cardinality(P) <= MaxPeaks
                  /\ \E sc \in [P -> PeakScores] :
                       famSurface' = [c \in Cells |-> IF c \in P THEN sc[c] ELSE 0]
                  /\ famResult' = famSurface'
                  /\ famPasses' = 1
                  /\ famPc' = "loop"
           ELSE /\ famPc' = "done"
                /\ UNCHANGED <<famSurface, famResult, famPasses>>
    /\ UNCHANGED <<ctlVars, logVars, playVars, capVars, findVars, famHits, pickOut>>

\* one turn of the loop of find_all_matches
FamIter ==
    /\ famPc = "loop"
    /\ IF MaxVal(famResult) < markerTh
         THEN /\ famPc' = "done"
              /\ UNCHANGED <<famResult, famHits>>
         ELSE /\ Len(famHits) < MaxHits
              /\ LET maxL == MaxLoc(famResult)
                 IN /\ famHits' = Append(famHits, MatchHit(maxL, MaxVal(famResult)))
                    /\ famResult' = FillRect(famResult, SuppressRect(maxL))
              /\ UNCHANGED famPc
    /\ UNCHANGED <<ctlVars, logVars, playVars, capVars, findVars, famSurface, famPasses,
                   templCols, templRows, markerTh, gQuestLogIgnore, pickOut>>

\* the rest of pick_world_marker
PickMarker ==
    /\ famPc = "done"
    /\ pickOut' = << pick_world_marker(famHits) >>
    /\ famPc' = "picked"
    /\ UNCHANGED <<ctlVars, logVars, playVars, capVars, findVars, famSurface, famResult, famHits,
                   famPasses, templCols, templRows, markerTh, gQuestLogIgnore>>

\* ------------------------------------------------------------------------
\* TemplateDetector::findEnemy
\* ------------------------------------------------------------------------
\* enemy templates in a set
MaxEnemies == 3

EnemyThresholds == {75, 90}
EnemyLocs == { <<0, 0>>, <<4, 1>> }

\* what matchTemplate and minMaxLoc give for the i-th template on a frame:
\* whether it fits the frame, its best score (percent) and where; its size
\* goes with its place in the set
EnemyTemplate(i, fits, maxVal, maxLoc) ==
    [fits |-> fits, maxVal |-> maxVal, maxLoc |-> maxLoc, cols |-> 2 * i + 1, rows |-> 2 * i]

NoBest == [bestScore |-> -100, bestLoc |-> <<-1, -1>>, bestIdx |-> -1]

\* a loop that stops at the first template reaching the threshold
RECURSIVE FindLoopEarlyExit(_, _, _)
FindLoopEarlyExit(ts, i, best) ==
    IF i > Len(ts) THEN best
    ELSE IF ~ts[i].fits THEN FindLoopEarlyExit(ts, i + 1, best)
    ELSE IF ts[i].maxVal >= enemyTh_
      THEN [bestScore |-> ts[i].maxVal, bestLoc |-> ts[i].maxLoc, bestIdx |-> i - 1]
    ELSE IF ts[i].maxVal > best.bestScore
      THEN FindLoopEarlyExit(ts, i + 1,
               [bestScore |-> ts[i].maxVal, bestLoc |-> ts[i].maxLoc, bestIdx |-> i - 1])
    ELSE FindLoopEarlyExit(ts, i + 1, best)

\* the loop of findEnemy over the templates (bestIdx counts from 0)
RECURSIVE FindLoop(_, _, _)
FindLoop(ts, i, best) ==
    IF i > Len(ts) THEN best
    ELSE IF ~ts[i].fits THEN FindLoop(ts, i + 1, best)
    ELSE IF ts[i].maxVal > best.bestScore
      THEN FindLoop(ts, i + 1,
               [bestScore |-> ts[i].maxVal, bestLoc |-> ts[i].maxLoc, bestIdx |-> i - 1])
    ELSE FindLoop(ts, i + 1, best)

\* the point findEnemy returns, with *outConf and *outIdx
findEnemy(ts) ==
    IF ts = << >> THEN [p |-> <<-1, -1>>, conf |-> 0, idx |-> -1]
    ELSE LET best == FindLoop(ts, 1, NoBest)
         IN [p |-> IF best.bestIdx >= 0 /\ best.bestScore >= enemyTh_
                     THEN << best.bestLoc[1] + ts[best.bestIdx + 1].cols \div 2,
                             best.bestLoc[2] + ts[best.bestIdx + 1].rows \div 2 >>
                     ELSE <<-1, -1>>,
             conf |-> best.bestScore,
             idx |-> best.bestIdx]

\* findEnemy is called on a frame
FindEnemyCall ==
    /\ findOut = << >> /\ famPc = "none"
    /\ \E n \in 0..MaxEnemies, th \in EnemyThresholds :
         \E fits \in [1..n -> BOOLEAN], sc \in [1..n -> Scores], loc \in [1..n -> EnemyLocs] :
            /\ enemies_' = [i \in 1..n |-> EnemyTemplate(i, fits[i], sc[i], loc[i])]
            /\ enemyTh_' = th
    /\ findOut' = << findEnemy(enemies_) >>'
    /\ UNCHANGED <<ctlVars, logVars, playVars, capVars, famPc, famSurface, famResult, famHits,
                   famPasses, templCols, templRows, markerTh, gQuestLogIgnore, pickOut>>

InitVision == IdleCtl /\ IdleLog /\ IdleVision /\ mainPc = "none"

NextVision == FamStart \/ FamIter \/ PickMarker \/ FindEnemyCall

SpecVision == InitVision /\ [][NextVision]_vars

\* ------------------------------------------------------------------------
\* Claims about the marker detection
\* ------------------------------------------------------------------------

\* the locations find_all_matches can still select
Candidates(result) == {c \in Cells : result[c] >= markerTh}

\* C12: find_all_matches terminates: each iteration of its suppression
\* loop that records a hit strictly shrinks the set of locations that can
\* still be selected.
C12_EachIterationShrinks ==
    [][ (famPc = "loop" /\ famHits' # famHits)
          => /\ Candidates(famResult') \subseteq Candidates(famResult)
             /\ Candidates(famResult') # Candidates(famResult) ]_vars

\* the places of the surface at or above the threshold, each a region of
\* its own when no two template boxes placed on them overlap
Above == {c \in Cells : famSurface[c] >= markerTh}
RegionsApart ==
    \A c \in Above, d \in Above :
        c # d => \/ c[1] - d[1] >= templCols \/ d[1] - c[1] >= templCols
                 \/ c[2] - d[2] >= templRows \/ d[2] - c[2] >= templRows

\* C13: on a surface with K non-overlapping above-threshold regions the
\* search reports no region twice and returns exactly K hits; with no
\* location at or above the threshold it returns the empty list after
\* exactly one correlation pass.
C13_OneHitPerRegion ==
    (famPc # "none" /\ famPasses = 1 /\ RegionsApart)
        => /\ Len(famHits) <= Cardinality(Above)
           /\ \A i \in 1..Len(famHits), j \in 1..Len(famHits) :
                 i # j => famHits[i].topLeft # famHits[j].topLeft
           /\ famPc \in {"done", "picked"} => Len(famHits) = Cardinality(Above)

\* the centre of a hit lies in the exclusion rectangle, edges included
Excluded(h) ==
    LET ctr == HitCentre(h)
    IN /\ ctr[1] >= gQuestLogIgnore.left /\ ctr[1] <= gQuestLogIgnore.right
       /\ ctr[2] >= gQuestLogIgnore.top /\ ctr[2] <= gQuestLogIgnore.bottom

Survivors == {i \in 1..Len(famHits) : ~Excluded(famHits[i])}

\* C14: a hit whose centre lies inside the exclusion rectangle is never
\* returned by pick_world_marker, even when it is the hit nearest to the
\* frame centre; when every hit is excluded no marker is reported.
C14_ExcludedNeverPicked ==
    famPc = "picked"
        => /\ pickOut[1].found
                => \A i \in 1..Len(famHits) :
                       Excluded(famHits[i]) => HitCentre(famHits[i]) # pickOut[1].centre
           /\ Survivors = {} => ~pickOut[1].found

\* the hit nearest to the frame centre is excluded and another one is returned
C14_Witness ==
    /\ famPc = "picked" /\ pickOut[1].found
    /\ \E i \in 1..Len(famHits) :
          /\ Excluded(famHits[i])
          /\ \A j \in 1..Len(famHits) :
                j # i => Cost(HitCentre(famHits[j])) > Cost(HitCentre(famHits[i]))

\* C15: among the hits that survive the exclusion filter pick_world_marker
\* returns the one whose centre is nearest to the frame centre, and among
\* equally near ones the one find_all_matches found first.
C15_NearestSurvivorFirstFound ==
    (famPc = "picked" /\ Survivors # {})
        => /\ pickOut[1].found
           /\ \E i \in Survivors :
                 /\ pickOut[1].centre = HitCentre(famHits[i])
                 /\ pickOut[1].score = famHits[i].score
                 /\ \A j \in Survivors :
                       /\ Cost(HitCentre(famHits[j])) >= Cost(HitCentre(famHits[i]))
                       /\ Cost(HitCentre(famHits[j])) = Cost(HitCentre(famHits[i])) => j >= i

\* two surviving hits are equally near and the first of them is returned;
\* a third hit is farther
C15_Witness ==
    /\ famPc = "picked" /\ pickOut[1].found
    /\ \E i \in Survivors, j \in Survivors :
          /\ i < j
          /\ Cost(HitCentre(famHits[j])) = Cost(HitCentre(famHits[i]))
          /\ pickOut[1].centre = HitCentre(famHits[i])
          /\ pickOut[1].centre # HitCentre(famHits[j])

\* the templates findEnemy can match on the frame
Fitting == {i \in 1..Len(enemies_) : enemies_[i].fits}

\* C16: findEnemy evaluates every template of the set, never stopping at
\* the first one that reaches the threshold: it returns the location and
\* the index of the best-scoring template over all of them (the first of
\* equal ones), or no hit when that best score is below the threshold.
C16_FindEnemyBestOfAll ==
    findOut # << >>
        => LET out == findOut[1]
           IN IF Fitting = {}
                THEN out.p = <<-1, -1>> /\ out.idx = -1
                ELSE /\ out.idx + 1 \in Fitting
                     /\ out.conf = enemies_[out.idx + 1].maxVal
                     /\ \A j \in Fitting :
                           /\ enemies_[j].maxVal <= out.conf
                           /\ enemies_[j].maxVal = out.conf => j >= out.idx + 1
                     /\ IF out.conf >= enemyTh_
                          THEN out.p = << enemies_[out.idx + 1].maxLoc[1]
                                            + enemies_[out.idx + 1].cols \div 2,
                                          enemies_[out.idx + 1].maxLoc[2]
                                            + enemies_[out.idx + 1].rows \div 2 >>
                          ELSE out.p = <<-1, -1>>

\* the first template reaches the threshold, a later one scores higher and
\* is the one returned
C16_Witness ==
    /\ findOut # << >>
    /\ Len(enemies_) >= 2
    /\ enemies_[1].fits /\ enemies_[1].maxVal >= enemyTh_
    /\ findOut[1].idx >= 1
    /\ findOut[1].conf > enemies_[1].maxVal
    /\ findOut[1].p # <<-1, -1>>

\* ------------------------------------------------------------------------
\* Claims about the hunt thread
\* ------------------------------------------------------------------------

\* the hunt thread ends a scan in this step
HuntScanEnds == huntPc = "tick" /\ huntPc' # "tick"

\* C17: the hunt thread sends device commands only at the end of a scan in
\* which no battle was detected, a target was found with a score at or
\* above the enemy threshold, playback or quest-walk is active, and the
\* cooldown has elapsed since the previous attack of this thread (a new
\* thread starts one cooldown in the past); the commands are then the
\* attack, and the time of the attack is remembered. In the passive mode a
\* scan sends nothing.
C17_AttackOnlyWhenAllowed ==
    [][ /\ (huntCmds' # huntCmds /\ huntCmds' # << >>) => HuntScanEnds
        /\ (HuntScanEnds /\ huntCmds' # << >>) =>
              /\ huntPc' = "loop"
              /\ gBattleStarted' = gBattleStarted
              /\ ~gHuntInfo'.lastWasBattle
              /\ gHuntInfo'.lastName = "enemy"
              /\ gHuntInfo'.lastConf >= enemyTh
              /\ (gPlaying \/ gRunQuestWalk)
              /\ now - lastAttack >= cooldownMs
              /\ huntCmds' = HuntAttack
              /\ lastAttack' = now
        /\ (HuntScanEnds /\ ~gPlaying /\ ~gRunQuestWalk) =>
              huntCmds' = << >> /\ lastAttack' = lastAttack
        /\ (huntPc \in {"none", "done"} /\ huntPc' = "loop") =>
              lastAttack' = now - cooldownMs'
        /\ (lastAttack' # lastAttack) =>
              (HuntScanEnds /\ huntCmds' # << >>)
                \/ (huntPc \in {"none", "done"} /\ huntPc' = "loop")
      ]_vars

\* an attack in a playback, a cooldown or more after the thread was started
C17_Witness ==
    /\ huntCmds = HuntAttack /\ huntPc = "loop"
    /\ gPlaying /\ gHuntInfo.lastName = "enemy"
    /\ lastAttack = now /\ now >= cooldownMs /\ nRestart = 0


\* maybe_restart_hunt_on_shift relaunches in this step
HuntRelaunch == RestartCond /\ nRestart' = nRestart + 1

\* C18: a restart leaves gBattleStarted false, and the thread it starts runs
\* with the template paths, thresholds, scan interval and cooldown of the
\* thread before it, which are those of the saved configuration.
C18_RestartKeepsConfig ==
    [][ HuntRelaunch =>
          /\ ~gBattleStarted'
          /\ (gAutoHuntRun' =>
                (/\ huntPc' = "loop"
                 /\ huntCfg' = huntCfg
                 /\ detEnemies' = gEnemyTemplatesPath
                 /\ detBattle' = gBattleStartPath
                 /\ enemyTh' = gEnemyTh
                 /\ battleTh' = gBattleTh
                 /\ scanMs' = ClampScan(gScanMs)
                 /\ cooldownMs' = ClampCooldown(gCooldownMs)))
      ]_vars

\* a relaunched thread under the user's own configuration
C18_Witness ==
    /\ nRestart = 1 /\ gAutoHuntRun /\ huntPc = "loop" /\ ~gBattleStarted
    /\ detEnemies = "boar.png" /\ enemyTh = 90 /\ scanMs = 20 /\ cooldownMs = 100

\* none of recording, playback and quest-walk is active
NoModeActive == ~gRecording /\ ~gPlaying /\ ~gRunQuestWalk

Sends(cmds, c) == \E i \in 1..Len(cmds) : cmds[i] = c

\* what a tick sends when it does not see the marker and has not arrived
MarkerUnseen == << send_key(FALSE, "A"), send_key(FALSE, "D"), send_key(FALSE, "S") >>

\* C20: a tick of the quest-walk thread that is not paused and has not
\* arrived either does not see the marker (it releases the steering keys and
\* changes nothing else), or acts on d, the reading of this tick or else the
\* last valid one: without any reading or with d > 5 it presses W and SHIFT
\* and holds both; with 3 < d <= 5 it presses W, releases SHIFT and holds W
\* without SHIFT; with 0 <= d <= 3 it releases every movement key and
\* becomes arrived.
C20_SpeedByDistance ==
    [][ (qwPc = "tick" /\ qwPc' = "loop" /\ ~arrived) =>
          \/ /\ qwCmds' = MarkerUnseen
             /\ arrived' = arrived
             /\ prevDist' = prevDist
          \/ LET d == prevDist'
             IN /\ (d < 0 \/ d > 5) =>
                     /\ ~arrived'
                     /\ Sends(qwCmds', send_key(TRUE, "W"))
                     /\ Sends(qwCmds', send_key(TRUE, "SHIFT"))
                     /\ {"W", "SHIFT"} \subseteq qwHeld'
                /\ (d > kArrivalMeters /\ d <= 5) =>
                     /\ ~arrived'
                     /\ Sends(qwCmds', send_key(TRUE, "W"))
                     /\ Sends(qwCmds', send_key(FALSE, "SHIFT"))
                     /\ "W" \in qwHeld' /\ "SHIFT" \notin qwHeld'
                /\ (d >= 0 /\ d <= kArrivalMeters) =>
                     /\ arrived'
                     /\ qwCmds' = release_move_keys
                     /\ qwHeld' = {}
      ]_vars

\* the walker has slowed down between 3 m and 5 m
C20_Witness ==
    /\ qwPc = "loop" /\ ~arrived /\ prevDist = 4
    /\ Sends(qwCmds, send_key(FALSE, "SHIFT"))
    /\ "W" \in qwHeld /\ "SHIFT" \notin qwHeld

\* ------------------------------------------------------------------------
\* Claims about arrival, steering and the distance read
\* ------------------------------------------------------------------------

\* the quest-walk thread completes a tick in this step
QwTickEnds == qwPc = "tick" /\ qwPc' \in {"loop", "asleep"}

\* the arrived flag after each of a series of ticks that see the marker and
\* read the given distances
RECURSIVE ArrivedAfter(_, _, _)
ArrivedAfter(arr, pd, readings) ==
    IF readings = << >> THEN << >>
    ELSE LET r == QuestTick(arr, pd, TRUE, TRUE, Head(readings), 0, DeadzonePx)
         IN << r.arrived >> \o ArrivedAfter(r.arrived, r.prevDist, Tail(readings))

\* C21: without a battle pause, a tick changes the arrived flag only on a
\* reading: a walker becomes arrived exactly on a reading of 0..3, a stopped
\* one resumes exactly on a reading of 5 or more, never at 4; for the
\* readings 6,6,4,4,2,2,4,4,6 the flag is no,no,no,no,yes,yes,yes,yes,no.
C21_Hysteresis ==
    [][ /\ ArrivedAfter(FALSE, -1, << 6, 6, 4, 4, 2, 2, 4, 4, 6 >>)
             = << FALSE, FALSE, FALSE, FALSE, TRUE, TRUE, TRUE, TRUE, FALSE >>
        /\ QwTickEnds =>
             /\ (qwSeen'.markerFound /\ qwSeen'.read >= 0) =>
                  /\ ~arrived => (arrived' <=> qwSeen'.read <= kArrivalMeters)
                  /\ arrived => (arrived' <=> qwSeen'.read < kResumeMeters)
             /\ (arrived' # arrived) => (qwSeen'.markerFound /\ qwSeen'.read >= 0)
      ]_vars

\* a stopped walker has read 4 and stays stopped
C21_Witness ==
    /\ qwPc = "loop" /\ arrived /\ qwSeen.markerFound /\ qwSeen.read = 4

\* C22: from the tick in which the walker arrives and for as long as it
\* stays arrived, no tick presses W, and W is not held after it.
C22_StoppedSendsNoForward ==
    [][ (QwTickEnds /\ arrived') =>
          (~HasKeyDown(qwCmds', "W") /\ "W" \notin qwHeld')
      ]_vars

\* the S key is pressed and later released
PulsesBack(cmds) ==
    \E i, j \in 1..Len(cmds) :
       i < j /\ cmds[i] = send_key(TRUE, "S") /\ cmds[j] = send_key(FALSE, "S")

\* C23: a stopped walker that reads a distance more than 2 above its last
\* reading (and below the resume distance) presses and releases S in that
\* tick and stays arrived.
C23_OvershootPulse ==
    [][ ( /\ QwTickEnds /\ arrived
          /\ qwSeen'.markerFound /\ prevDist >= 0
          /\ qwSeen'.read > prevDist + 2 /\ qwSeen'.read < kResumeMeters ) =>
          (PulsesBack(qwCmds') /\ arrived')
      ]_vars

\* the steer keys held are those the offset dx asks for
SteeredBy(held, dx) ==
    /\ ("A" \in held) <=> (dx < -DeadzonePx)
    /\ ("D" \in held) <=> (dx > DeadzonePx)

C25_SteeringInEveryState ==
    [][ (QwTickEnds /\ qwSeen'.markerFound) =>
          SteeredBy(qwHeld', qwSeen'.dx)
      ]_vars

\* the command names one of the keys
SendsKey(cmds, keys) == \E i \in 1..Len(cmds) : cmds[i].vk \in keys

\* C26: after a tick that does not find the marker, neither A nor D is
\* held, and the tick has sent no command for W or SHIFT, in every movement
\* state.
C26_UnseenReleasesSteering ==
    [][ (QwTickEnds /\ ~qwSeen'.markerFound) =>
          /\ "A" \notin qwHeld' /\ "D" \notin qwHeld'
          /\ ~SendsKey(qwCmds', {"W", "SHIFT"})
      ]_vars

\* C27: a tick that sees the marker but fails to read the distance, with a
\* valid reading on record, decides and sends exactly what it would with a
\* reading equal to the recorded one, and keeps the record.
C27_FailedReadUsesLastValid ==
    [][ (QwTickEnds /\ qwSeen'.markerFound /\ qwSeen'.read < 0 /\ prevDist >= 0) =>
          LET r == QuestTick(arrived, prevDist, TRUE, TRUE, prevDist, qwSeen'.dx, DeadzonePx)
          IN /\ arrived' = r.arrived
             /\ qwCmds' = r.cmds
             /\ prevDist' = prevDist
             /\ (LET c == qwCmds'
                 IN IF arrived \/ prevDist <= kArrivalMeters THEN TRUE
                    ELSE ~arrived' /\ HasKeyDown(c, "W")
                         /\ (HasKeyDown(c, "SHIFT") <=> prevDist > 5))
      ]_vars

\* a walker at 4 m keeps walking slowly through a failed read
C27_Witness ==
    /\ qwPc = "loop" /\ ~arrived /\ prevDist = 4
    /\ qwSeen.markerFound /\ qwSeen.read = -1
    /\ "W" \in qwHeld /\ "SHIFT" \notin qwHeld

\* ------------------------------------------------------------------------
\* Claims about shutdown
\* ------------------------------------------------------------------------

\* C28: once the run flag of the quest-walk thread is false, the thread
\* leaves its loop and ends, so that the join in stop_quest_walk (the first
\* step of stop_all_threads) returns.
C28_StopIsObserved ==
    (~gRunQuestWalk /\ qwPc \notin {"none", "done"}) ~> (qwPc = "done")

\* ------------------------------------------------------------------------
\* Claims about the playback order
\* ------------------------------------------------------------------------

\* the commands of the first n events, in log order
RECURSIVE Emitted(_, _)
Emitted(evs, n) == IF n = 0 THEN << >> ELSE Emitted(evs, n - 1) \o PlayCommand(evs[n])

\* the time slept before and the commands sent for each event of a log,
\* as the playback loop computes them
RECURSIVE Replay(_, _)
Replay(evs, prev) ==
    IF evs = << >> THEN << >>
    ELSE LET e == Head(evs)
         IN << << SleepTime(SleepArg(e.t_us, prev)), PlayCommand(e) >> >>
            \o Replay(Tail(evs), e.t_us)

\* C29: play_file sends the commands of the events in log order, one event
\* per turn; a turn that finds the stop key down sends nothing and ends the
\* loop, after which no command of any event is sent. The log [relative
\* move (5,-3) at 0, key-down 65 at 100000, key-up 65 at 150000] gives these
\* three commands after sleeps of 0, 100000 and 50000 microseconds.
C29_OrderAndStop ==
    [][ /\ Replay(<< Event(EV_MOUSE_MOVE, 0, 5, -3, 0), Event(EV_KEY_DOWN, 100000, 65, 0, 0),
                     Event(EV_KEY_UP, 150000, 65, 0, 0) >>, 0)
             = << << 0, << <<"moveRel", 5, -3>> >> >>,
                  << 100000, << <<"keyDown", 65, 0>> >> >>,
                  << 50000, << <<"keyUp", 65, 0>> >> >> >>
        /\ playPc \in {"loop", "stopped"} => playOut = Emitted(events, playIdx)
        /\ (playPc = "loop" /\ playIdx' # playIdx) =>
              /\ ~escDown
              /\ playIdx' = playIdx + 1
              /\ playOut' = playOut \o PlayCommand(events[playIdx + 1])
        /\ (playPc = "loop" /\ playIdx < Len(events) /\ escDown /\ playPc' # playPc) =>
              /\ playPc' = "stopped"
              /\ playIdx' = playIdx /\ playOut' = playOut
        /\ playPc = "stopped" =>
              /\ playIdx' = playIdx
              /\ playPc' \in {"stopped", "done"}
              /\ playPc' = "stopped" => playOut' = playOut
      ]_vars

\* stopped by the stop key after the first of two events
C29_Witness ==
    /\ playPc = "stopped" /\ playIdx = 1 /\ Len(events) = 2
    /\ playOut = PlayCommand(events[1]) /\ playOut # << >>

\* ------------------------------------------------------------------------
\* Claims about the numeric parameters
\* ------------------------------------------------------------------------

\* C30: no controller loop runs with an out-of-range parameter: intervals
\* and the cooldown are positive and every match threshold lies in 0..1
\* (0..100 in hundredths).
C30_ParametersInRange ==
    /\ huntPc = "loop" =>
          /\ scanMs > 0 /\ cooldownMs > 0
          /\ enemyTh \in 0..100 /\ battleTh \in 0..100
    /\ qwPc \notin {"none", "done"} =>
          /\ qwArgs.tickMs > 0
          /\ qwArgs.markerTh \in 0..100

\* ------------------------------------------------------------------------
\* Claims about the hunt thread's button, flags and cooldown
\* ------------------------------------------------------------------------

\* whether the left button is down after the commands, given how it was before
RECURSIVE ButtonDownAfter(_, _)
ButtonDownAfter(cmds, dn) ==
    IF cmds = << >> THEN dn
    ELSE ButtonDownAfter(Tail(cmds),
                         IF Head(cmds) = "buttonDown" THEN TRUE
                         ELSE IF Head(cmds) = "buttonUp" THEN FALSE
                         ELSE dn)

\* C31: every attack of the hunt thread presses the left button and releases
\* it in the same step of the thread, so the button is up after every step;
\* the steps by which the thread ends (battle stop, run flag cleared) send
\* nothing, so the thread ends with the button up.
C31_AttackReleasesButton ==
    [][ /\ HuntScanEnds /\ lastAttack' # lastAttack =>
              /\ Sends(huntCmds', "buttonDown")
              /\ huntCmds'[Len(huntCmds')] = "buttonUp"
        /\ ~ButtonDownAfter(huntCmds', FALSE)
        /\ (huntPc # "done" /\ huntPc' = "done") => huntCmds' = << >>
      ]_vars

\* the thread has ended by a battle stop after an attack at the first clock step
C31_Witness ==
    /\ huntPc = "done" /\ gBattleStarted /\ gHuntInfo.lastWasBattle
    /\ lastAttack = ClockStepMs /\ cooldownMs < ClockStepMs

\* a step of the main thread: it moves on, or it relaunches the hunt
MainThreadStep == mainPc' # mainPc \/ nRestart' # nRestart

\* C32: each of the flags recording, playing and battleStarted is
\* changed by one thread only - recording and playing by the main thread,
\* battleStarted by the hunt thread, which sets it.
C32_OneProducerEach ==
    [][ /\ (gRecording' # gRecording \/ gPlaying' # gPlaying) => MainThreadStep
        /\ gBattleStarted' # gBattleStarted => HuntScanEnds
      ]_vars

\* who changes the flags in the code: recording and playing the main thread
\* only; battleStarted is set by the hunt thread at the end of a scan that
\* found the battle template, and cleared by the main thread, in
\* maybe_restart_hunt_on_shift and start_auto_hunt, while no hunt thread runs
FlagWriters ==
    [][ /\ (gRecording' # gRecording \/ gPlaying' # gPlaying) => MainThreadStep
        /\ (~gBattleStarted /\ gBattleStarted') =>
              (HuntScanEnds /\ huntPc' = "battle" /\ ~MainThreadStep)
        /\ (gBattleStarted /\ ~gBattleStarted') =>
              (MainThreadStep /\ huntPc \in {"none", "done"})
      ]_vars


\* the hunt thread attacks in this step
HuntAttacks == HuntScanEnds /\ Sends(huntCmds', "buttonDown")

\* C33: between two consecutive attacks sent by the hunt controller at least
\* the clamped cooldown elapses, whether or not the hunt was stopped by a
\* battle detection and relaunched between the two.
C33_CooldownBetweenAttacks ==
    [][ (HuntAttacks /\ attackAt # -1) => now - attackAt >= cooldownMs ]_vars

\* within one thread the cooldown is kept: the thread's own last attack is
\* the device's last attack unless a relaunch came between
CooldownWithinThread ==
    [][ (HuntAttacks /\ attackAt # -1 /\ lastAttack = attackAt) =>
            now - attackAt >= cooldownMs ]_vars


\* ------------------------------------------------------------------------
\* Claims about the suppression window
\* ------------------------------------------------------------------------

\* C34: the rectangle find_all_matches zeroes around an accepted location
\* is at least as wide and as tall as the template, in each direction in
\* which the border of the score surface does not clip it.
C34_WindowCoversTemplate ==
    [][ (famPc = "loop" /\ Len(famHits') > Len(famHits)) =>
           LET maxL == famHits'[Len(famHits')].topLeft
               rc == SuppressRect(maxL)
           IN /\ (maxL[1] - templCols \div 2 >= 0 /\ maxL[1] + templCols \div 2 <= RCols)
                    => rc.width >= templCols
              /\ (maxL[2] - templRows \div 2 >= 0 /\ maxL[2] + templRows \div 2 <= RRows)
                    => rc.height >= templRows
      ]_vars

\* for templates with even sides the window is exactly the template's size
WindowCoversEvenTemplate ==
    [][ (famPc = "loop" /\ Len(famHits') > Len(famHits)
           /\ templCols % 2 = 0 /\ templRows % 2 = 0) =>
           LET maxL == famHits'[Len(famHits')].topLeft
               rc == SuppressRect(maxL)
           IN /\ (maxL[1] - templCols \div 2 >= 0 /\ maxL[1] + templCols \div 2 <= RCols)
                    => rc.width = templCols
              /\ (maxL[2] - templRows \div 2 >= 0 /\ maxL[2] + templRows \div 2 <= RRows)
                    => rc.height = templRows
      ]_vars


\* ------------------------------------------------------------------------
\* Claims about the hunt wrappers
\* ------------------------------------------------------------------------

\* C35: when record_hunt or play_hunt has returned, by the end of its loop
\* or by a failure before it, the hunt thread it started has ended and has
\* been joined.
C35_ReturnJoinsHunt ==
    mainPc \in {"end", "returned"} => (huntPc \in {"none", "done"} /\ ~gAutoHuntRun)

\* after the loop of the mode, stop_all_threads has joined the hunt thread
ReturnAfterLoopJoinsHunt ==
    mainPc = "end" => (huntPc \in {"none", "done"} /\ ~gAutoHuntRun)


\* ------------------------------------------------------------------------
\* Claims about what the playback leaves held
\* ------------------------------------------------------------------------

\* the keys and buttons that are down after the device commands
RECURSIVE HeldAfter(_, _)
HeldAfter(cmds, held) ==
    IF cmds = << >> THEN held
    ELSE LET c == Head(cmds)
         IN HeldAfter(Tail(cmds),
               IF c[1] = "keyDown" THEN held \cup {<<"key", c[2]>>}
               ELSE IF c[1] = "keyUp" THEN held \ {<<"key", c[2]>>}
               ELSE IF c[1] = "buttonDown" THEN held \cup {<<"button", c[2]>>}
               ELSE IF c[1] = "buttonUp" THEN held \ {<<"button", c[2]>>}
               ELSE held)

\* C36: when play_file has returned, after the last event or after a stop
\* by ESC, no key and no mouse button that the playback pressed is down.
C36_NothingHeldAfterPlay ==
    playPc = "done" => HeldAfter(playOut, {}) = {}

\* what the playback does release at its end: W, A, S, D and SHIFT
MoveKeysUpAfterPlay ==
    playPc = "done" =>
        HeldAfter(playOut, {}) \cap {<<"key", 87>>, <<"key", 65>>, <<"key", 83>>,
                                     <<"key", 68>>, <<"key", VK_SHIFT>>} = {}


\* ------------------------------------------------------------------------
\* Claims about the restart trigger
\* ------------------------------------------------------------------------

\* C37: a restart trigger after a battle stop leaves the hunt running again
\* or, when the templates cannot be loaded, battleStarted still true, so
\* that quest-walk stays paused and a later trigger can relaunch the hunt.
C37_RestartRunsOrStaysRestartable ==
    [][ HuntRelaunch => (gAutoHuntRun' \/ gBattleStarted') ]_vars

\* a relaunch that loads its templates leaves the hunt running
RestartRunsWhenLoaded ==
    [][ (HuntRelaunch /\ detBattle' # "" /\ detEnemies' # "") => gAutoHuntRun' ]_vars


\* C38: the hunt is relaunched, and battleStarted cleared by the restart,
\* only in response to a SHIFT press of the user: in a run in which the
\* user never presses SHIFT, maybe_restart_hunt_on_shift never relaunches
\* the hunt, whatever SHIFT key-downs the program itself injects.
C38_NoRestartWithoutUserShift ==
    [][ ~HuntRelaunch ]_vars


\* ------------------------------------------------------------------------
\* The earlier hunt version (src/unnamed/part_000): recordhunt and playhunt
\* with a hunt thread that has no idle state
\* ------------------------------------------------------------------------

\* start_auto_hunt of the earlier version: join, clear the battle flag,
\* load the templates, clamp the timing, start the thread
EarlyStartAutoHunt(ep, bp, et, bt, sm, cm, loadOk) ==
    /\ huntPc \in {"none", "done"}
    /\ gBattleStarted' = FALSE
    /\ huntCmds' = << >>
    /\ UNCHANGED <<attackAt, gHuntInfo>>
    /\ IF loadOk
         THEN /\ detEnemies' = ep
              /\ detBattle' = bp
              /\ enemyTh' = et
              /\ battleTh' = bt
              /\ scanMs' = IF sm < 20 THEN 20 ELSE sm
              /\ cooldownMs' = IF cm < 100 THEN 100 ELSE cm
              /\ lastAttack' = now - (IF cm < 100 THEN 100 ELSE cm)
              /\ gAutoHuntRun' = TRUE
              /\ huntPc' = "loop"
         ELSE /\ gAutoHuntRun' = FALSE
              /\ \E enemiesLoaded \in BOOLEAN :
                   IF enemiesLoaded
                     THEN detEnemies' = ep /\ detBattle' = ""
                     ELSE detEnemies' = "" /\ UNCHANGED detBattle
              /\ UNCHANGED <<huntPc, enemyTh, battleTh, cooldownMs, scanMs, lastAttack>>

\* maybe_restart_hunt_on_shift of the earlier version
EarlyRestartOnShift ==
    /\ shiftLatch' = FALSE
    /\ IF shiftLatch /\ ~gAutoHuntRun /\ gBattleStarted
         THEN /\ nRestart < MaxRestarts
              /\ nRestart' = nRestart + 1
              /\ \E loadOk \in BOOLEAN :
                   EarlyStartAutoHunt(gEnemyTemplatesPath, gBattleStartPath,
                                      gEnemyTh, gBattleTh, gScanMs, gCooldownMs, loadOk)
         ELSE UNCHANGED <<nRestart, gBattleStarted, gAutoHuntRun, huntVars>>

\* main, record_hunt, play_hunt: the configuration is saved and the hunt
\* started before the file is opened and the countdown begins
EarlyModeStart ==
    /\ mainPc = "earlyArgs"
    /\ \E mode \in {"recordhunt", "playhunt"}, cfg \in HuntConfigs, loadOk \in BOOLEAN :
         /\ huntMode' = mode
         /\ gEnemyTemplatesPath' = cfg.ep
         /\ gBattleStartPath' = cfg.bp
         /\ gEnemyTh' = cfg.et
         /\ gBattleTh' = cfg.bt
         /\ gScanMs' = cfg.sm
         /\ gCooldownMs' = cfg.cm
         /\ EarlyStartAutoHunt(cfg.ep, cfg.bp, cfg.et, cfg.bt, cfg.sm, cfg.cm, loadOk)
    /\ mainPc' = "earlyCountdown"
    /\ UNCHANGED <<nonCtlVars, gRecording, gPlaying, gRunQuestWalk, qwVars, nRestart, now, keyVars>>

\* record_to_file, play_file: after the countdown the mode flag is set
EarlyCountdown ==
    /\ mainPc = "earlyCountdown"
    /\ gRecording' = (huntMode = "recordhunt")
    /\ gPlaying' = (huntMode = "playhunt")
    /\ mainPc' = "earlyLoop"
    /\ UNCHANGED <<nonCtlVars, gBattleStarted, gRunQuestWalk, gAutoHuntRun, qwVars, huntVars,
                   cfgVars, nRestart, huntMode, now, keyVars>>

\* one turn of the recording or playback loop: the restart check
EarlyPoll ==
    /\ mainPc = "earlyLoop"
    /\ EarlyRestartOnShift
    /\ UNCHANGED <<nonCtlVars, gRecording, gPlaying, gRunQuestWalk, qwVars, cfgVars,
                   mainPc, huntMode, now, escDown, escMsg>>

\* the loop ends: the mode flag is cleared, stop_auto_hunt clears the run flag
EarlyStop ==
    /\ mainPc = "earlyLoop"
    /\ gRecording' = FALSE
    /\ gPlaying' = FALSE
    /\ gAutoHuntRun' = FALSE
    /\ mainPc' = "earlyJoin"
    /\ UNCHANGED <<nonCtlVars, gBattleStarted, gRunQuestWalk, qwVars, huntVars,
                   cfgVars, nRestart, huntMode, now, keyVars>>

\* stop_auto_hunt: the join
EarlyJoin ==
    /\ mainPc = "earlyJoin"
    /\ huntPc \in {"none", "done"}
    /\ mainPc' = "end"
    /\ UNCHANGED <<nonCtlVars, flagVars, qwVars, huntVars, cfgVars, nRestart, huntMode,
                   now, keyVars>>

\* the head of the thread's loop: the run flag, the ESC key, and the test
\* "neither recording nor playing", which ends the thread
EarlyHuntLoop ==
    /\ huntPc = "loop"
    /\ IF ~gAutoHuntRun
         THEN huntPc' = "done" /\ UNCHANGED gAutoHuntRun
       ELSE IF escDown
         THEN huntPc' = "done" /\ gAutoHuntRun' = FALSE
       ELSE IF ~gRecording /\ ~gPlaying
         THEN huntPc' = "done" /\ gAutoHuntRun' = FALSE
       ELSE huntPc' = "tick" /\ UNCHANGED gAutoHuntRun
    /\ huntCmds' = << >>
    /\ UNCHANGED <<nonCtlVars, gRecording, gPlaying, gBattleStarted, gRunQuestWalk, qwVars,
                   huntCfg, lastAttack, attackAt, gHuntInfo, cfgVars, mainVars, now, keyVars>>

\* one scan: the battle template ends the thread; a target is attacked in a
\* playback once the cooldown has elapsed
EarlyHuntTick ==
    /\ huntPc = "tick"
    /\ \E battleScore \in Scores, enemyScore \in Scores :
         IF battleScore >= battleTh
           THEN /\ gBattleStarted' = TRUE
                /\ gAutoHuntRun' = FALSE
                /\ huntPc' = "done"
                /\ huntCmds' = << >>
                /\ UNCHANGED <<lastAttack, attackAt>>
           ELSE /\ huntPc' = "loop"
                /\ UNCHANGED <<gBattleStarted, gAutoHuntRun>>
                /\ IF enemyScore >= enemyTh /\ gPlaying /\ now - lastAttack >= cooldownMs
                     THEN /\ huntCmds' = << "move", "buttonDown", "buttonUp" >>
                          /\ lastAttack' = now
                          /\ attackAt' = now
                     ELSE /\ huntCmds' = << >>
                          /\ UNCHANGED <<lastAttack, attackAt>>
    /\ UNCHANGED <<nonCtlVars, gRecording, gPlaying, gRunQuestWalk, qwVars,
                   huntCfg, gHuntInfo, cfgVars, mainVars, now, keyVars>>

InitEarly ==
    /\ IdleCtl /\ IdleLog /\ IdleVision /\ mainPc = "earlyArgs"

NextEarly ==
    \/ EarlyModeStart \/ EarlyCountdown \/ EarlyPoll \/ EarlyStop \/ EarlyJoin
    \/ EarlyHuntLoop \/ EarlyHuntTick
    \/ PressEsc \/ ReleaseEsc \/ PressShift \/ HuntClock

SpecEarly == InitEarly /\ [][NextEarly]_vars

\* C39: in the earlier version the hunt thread that record_hunt or play_hunt
\* has started is still running when recording or playing becomes true
\* after the countdown, and it ends only on a battle detection, on ESC or
\* at the end of the session.
C39_EarlyHuntRunsInSession ==
    [][ /\ (mainPc = "earlyCountdown" /\ mainPc' = "earlyLoop" /\ detBattle # "" /\ ~escMsg)
              => (gAutoHuntRun /\ huntPc # "done")
        /\ (gAutoHuntRun /\ ~gAutoHuntRun') =>
              (gBattleStarted' \/ escDown \/ mainPc' = "earlyJoin")
      ]_vars

\* once recording or playing is set, a running thread ends only on a battle
\* detection, on ESC or at the end of the session
EarlyHuntEndsInSession ==
    [][ (gAutoHuntRun /\ ~gAutoHuntRun' /\ (gRecording \/ gPlaying)) =>
            (gBattleStarted' \/ escDown \/ mainPc' = "earlyJoin")
      ]_vars


\* ------------------------------------------------------------------------
\* Claims about the number of hunt threads
\* ------------------------------------------------------------------------

\* start_auto_hunt starts a thread in this step: at the initial start of a
\* mode or at a relaunch by the restart trigger
HuntThreadStarts ==
    /\ gAutoHuntRun'
    /\ \/ HuntRelaunch
       \/ (mainPc \in {"huntArgs", "startHunt"} /\ mainPc' # mainPc)

\* C40: start_auto_hunt starts a hunt thread only when the run flag is
\* false and the previous thread, if there was one, has ended and has been
\* joined; so there is never a second hunt thread beside a live one.
C40_OneHuntThread ==
    [][ HuntThreadStarts =>
           /\ ~gAutoHuntRun
           /\ huntPc \in {"none", "done"}
           /\ huntPc' = "loop"
      ]_vars

\* a relaunched thread is scanning after the thread before it was joined
C40_Witness ==
    /\ nRestart >= 1 /\ huntPc = "tick" /\ gAutoHuntRun /\ ~gBattleStarted

====
